---- MODULE Spec2Model ----
(***************************************************************************)
(* NatureLang compiler: the TAC optimizer (src/src/ir/optimizer.c), the    *)
(* IR builder (src/src/ir/ir.c) and the call lowering of the C code        *)
(* generator (src/src/codegen/ir_codegen.c).                               *)
(*                                                                         *)
(* A TAC function is the sequence of its instruction nodes in list order   *)
(* (first .. last following next).  Every node carries its identity `id'   *)
(* (the address of the TACInstr), so that inserting, unlinking or          *)
(* reordering nodes is visible.  An operand is a record [kind, v, d]:      *)
(*   none / temp(v = temp_id) / var(v = name) / int(v) / bool(v) /         *)
(*   label(v = label_id) / func(v = name) / float(v / d, a rational in     *)
(*   lowest terms with d > 0).  Names are numbered.  The data_type field   *)
(*   of an operand is written but never read by the optimizer and is left  *)
(*   out of the operand record.                                            *)
(***************************************************************************)
EXTENDS Integers, Sequences, FiniteSets, TLC

VARIABLES
    funcs,          \* ir_optimize: <<main_func, user functions...>>, each [first..last] as a sequence
    instr_count,    \* func->instr_count of every function
    level,          \* options->level
    fidx,           \* the function optimize_function is working on
    pc,             \* position inside ir_optimize / optimize_function
    iter,           \* optimize_function: iter
    changes,        \* optimize_function: changes of the current iteration
    passes_run,     \* stats->passes_run
    const_table,    \* the module-level const_table[0 .. const_table_count-1]
    div_by_zero,    \* a fold evaluated x / 0 or x % 0
    last_count,     \* the value returned by the pass that ran last
    input,          \* the functions as they were handed to ir_optimize
    ast,            \* the program handed to ir_generate (ast_null: TAC given directly)
    own,            \* for every Call of ir_generate: the Params of its own arguments
    emitted,        \* the C calls written by emit_instruction
    ip,             \* the running program: the instruction of main_func to run next
    env,            \* the running program: the values of its temps and variables
    output,         \* the running program: the values displayed so far
    symtab,         \* semantic analysis: the SymbolTable
    had_error,      \* semantic analysis: ctx->had_error
    work,           \* semantic analysis: the nodes still to be analyzed, innermost call first
    sem_result,     \* the SemanticResult semantic_analyze returned
    found           \* what the symtab_lookup call just made returned, and for which name

optvars == <<level, fidx, iter, changes, passes_run, const_table, div_by_zero, last_count>>
genvars == <<ast, own, input>>
runvars == <<ip, env, output>>
semvars == <<symtab, had_error, work, sem_result, found>>

vars == <<funcs, instr_count, pc, optvars, genvars, emitted, runvars, semvars>>

(***************************************************************************)
(* Operands                                                                *)
(***************************************************************************)
tac_operand_none == [kind |-> "none", v |-> 0, d |-> 1]
tac_operand_temp(id) == [kind |-> "temp", v |-> id, d |-> 1]
tac_operand_var(name) == [kind |-> "var", v |-> name, d |-> 1]
tac_operand_int(value) == [kind |-> "int", v |-> value, d |-> 1]
tac_operand_bool(value) == [kind |-> "bool", v |-> value, d |-> 1]
tac_operand_label(id) == [kind |-> "label", v |-> id, d |-> 1]
tac_operand_func(name) == [kind |-> "func", v |-> name, d |-> 1]
tac_operand_string(value) == [kind |-> "string", v |-> value, d |-> 1]

Abs(x) == IF x < 0 THEN -x ELSE x

RECURSIVE Gcd(_, _)
Gcd(a, b) == IF b = 0 THEN a ELSE Gcd(b, a % b)

\* a double with the value n / dd, dd # 0
tac_operand_float(n, dd) ==
    LET g == Gcd(Abs(n), Abs(dd))
        s == IF dd < 0 THEN -1 ELSE 1
    IN  [kind |-> "float", v |-> s * (n \div g), d |-> s * (dd \div g)]

is_int_const(op) == op.kind = "int"
is_float_const(op) == op.kind = "float"
is_numeric_const(op) == op.kind = "int" \/ op.kind = "float"
is_bool_const(op) == op.kind = "bool"
is_temp(op) == op.kind = "temp"
same_temp(a, b) == a.kind = "temp" /\ b.kind = "temp" /\ a.v = b.v

is_binary_op(op) ==
    op \in {"ADD", "SUB", "MUL", "DIV", "MOD", "POW",
            "EQ", "NEQ", "LT", "GT", "LTE", "GTE", "AND", "OR"}

is_unary_op(op) == op = "NEG" \/ op = "NOT"

\* set_int_const / set_float_const / set_bool_const: the operand is overwritten
set_int_const(val) == tac_operand_int(val)
set_float_const(n, dd) == tac_operand_float(n, dd)
set_bool_const(val) == tac_operand_bool(val)

(***************************************************************************)
(* Instructions                                                            *)
(***************************************************************************)
tac_instr_create(id, opcode, result, arg1, arg2) ==
    [id |-> id, op |-> opcode, res |-> result, a1 |-> arg1, a2 |-> arg2,
     a3 |-> tac_operand_none, dead |-> FALSE, data_type |-> "TYPE_UNKNOWN"]

\* convert_to_assign(instr, src): result = src
convert_to_assign(instr, src) ==
    [instr EXCEPT !.op = "ASSIGN", !.a1 = src, !.a2 = tac_operand_none]

\* rewrite to a load of one constant: opcode, arg1 set, arg2.kind = NONE
LoadOf(instr, opcode, c) ==
    [instr EXCEPT !.op = opcode, !.a1 = c, !.a2 = tac_operand_none]

(***************************************************************************)
(* AST (src/unnamed/part_007) and the IR builder (src/src/ir/ir.c)         *)
(*                                                                         *)
(* An AST node is a record [type, value, name, op, kids]: kids are the     *)
(* child nodes in the order of the node's fields.  Node kinds that the     *)
(* programs explored here do not use (Ask, Read, SecureZone, lists,        *)
(* unary operators, text and decimal literals) are left out.               *)
(***************************************************************************)
ast_node(type, value, name, op, kids) ==
    [type |-> type, value |-> value, name |-> name, op |-> op, kids |-> kids,
     data_type |-> "TYPE_UNKNOWN", is_const |-> FALSE]

\* a NULL child (no initializer, no else branch, no return value)
ast_null == ast_node("NULL", 0, 0, "", << >>)

ast_create_literal_int(value) == ast_node("AST_LITERAL_INT", value, 0, "", << >>)
ast_create_identifier(name) == ast_node("AST_IDENTIFIER", 0, name, "", << >>)
ast_create_binary_op(op, left, right) == ast_node("AST_BINARY_OP", 0, 0, op, <<left, right>>)
ast_create_func_call(name, args) == ast_node("AST_FUNC_CALL", 0, name, "", args)
ast_create_var_decl(name, init) == ast_node("AST_VAR_DECL", 0, name, "", <<init>>)
ast_create_assign(name, value) == ast_node("AST_ASSIGN", 0, name, "", <<value>>)
ast_create_display(value) == ast_node("AST_DISPLAY", 0, 0, "", <<value>>)
ast_create_if(cond, then_branch, else_branch) ==
    ast_node("AST_IF", 0, 0, "", <<cond, then_branch, else_branch>>)
ast_create_while(cond, body) == ast_node("AST_WHILE", 0, 0, "", <<cond, body>>)
ast_create_repeat(count, body) == ast_node("AST_REPEAT", 0, 0, "", <<count, body>>)
ast_create_for_each(iter_name, iterable, body) ==
    ast_node("AST_FOR_EACH", 0, iter_name, "", <<iterable, body>>)
ast_create_func_decl(name, body) == ast_node("AST_FUNC_DECL", 0, name, "", <<body>>)
ast_create_return(value) == ast_node("AST_RETURN", 0, 0, "", <<value>>)
ast_create_break == ast_node("AST_BREAK", 0, 0, "", << >>)
ast_create_continue == ast_node("AST_CONTINUE", 0, 0, "", << >>)
ast_create_expr_stmt(expr) == ast_node("AST_EXPR_STMT", 0, 0, "", <<expr>>)
ast_create_block(statements) == ast_node("AST_BLOCK", 0, 0, "", statements)
ast_create_program(statements) == ast_node("AST_PROGRAM", 0, 0, "", statements)

\* The nodes the semantic analyzer reads beyond those above.  data_type is the
\* declared type of a declaration or parameter and the return type of a
\* function; a function's kids are its body and then its parameters; an
\* assignment to an element has name 0 and its target as second kid.
ast_create_literal_float(value) == ast_node("AST_LITERAL_FLOAT", value, 0, "", << >>)
ast_create_literal_string(value) == ast_node("AST_LITERAL_STRING", value, 0, "", << >>)
ast_create_literal_bool(value) == ast_node("AST_LITERAL_BOOL", value, 0, "", << >>)
ast_create_unary_op(op, operand) == ast_node("AST_UNARY_OP", 0, 0, op, <<operand>>)
ast_create_ternary_op(op, operand, lower, upper) ==
    ast_node("AST_TERNARY_OP", 0, 0, op, <<operand, lower, upper>>)
ast_create_index(array, index) == ast_node("AST_INDEX", 0, 0, "", <<array, index>>)
ast_create_list(elements) == ast_node("AST_LIST", 0, 0, "", elements)
ast_create_ask(prompt, target_var) == ast_node("AST_ASK", 0, target_var, "", <<prompt>>)
ast_create_read(target_var) == ast_node("AST_READ", 0, target_var, "", << >>)
ast_create_secure_zone(body) == ast_node("AST_SECURE_ZONE", 0, 0, "", <<body>>)
ast_create_param_decl(name, type) ==
    [ast_node("AST_PARAM_DECL", 0, name, "", << >>) EXCEPT !.data_type = type]
ast_create_var_decl_typed(name, type, init, is_const) ==
    [ast_create_var_decl(name, init) EXCEPT !.data_type = type, !.is_const = is_const]
ast_create_func_decl_typed(name, params, return_type, body) ==
    [ast_node("AST_FUNC_DECL", 0, name, "", <<body>> \o params) EXCEPT
        !.data_type = return_type]
ast_create_index_assign(target, value) == ast_node("AST_ASSIGN", 0, 0, "", <<value, target>>)

\* operator_to_tac: the opcodes carry the operators' names
operator_to_tac(op) == op

\* IRGenContext after memset and tac_program_create.  functions holds every
\* TACFunction created so far (main_func first), listed is prog->functions;
\* own records, for every Call emitted, the Params emitted for its arguments,
\* val is the operand the last ir_gen_expression returned.
ir_context_create ==
    [functions |-> << << >> >>, listed |-> << >>, current_func |-> 1, in_function |-> 0,
     loop_break_label |-> 0, loop_continue_label |-> 0, in_loop |-> 0,
     next_temp |-> 0, next_label |-> 0,
     own |-> {}, own_params |-> << >>, val |-> tac_operand_none, val_type |-> "TYPE_UNKNOWN"]

\* tac_emit(func, op, result, arg1, arg2): tac_instr_create and tac_func_append
tac_emit(ctx, f, opcode, result, arg1, arg2) ==
    [ctx EXCEPT !.functions[f] =
        Append(@, tac_instr_create(Len(@) + 1, opcode, result, arg1, arg2))]

tac_emit_label(ctx, f, label_id) ==
    tac_emit(ctx, f, "LABEL", tac_operand_label(label_id), tac_operand_none, tac_operand_none)

tac_emit_goto(ctx, f, label_id) ==
    tac_emit(ctx, f, "GOTO", tac_operand_label(label_id), tac_operand_none, tac_operand_none)

tac_emit_if_goto(ctx, f, cond, label_id) ==
    tac_emit(ctx, f, "IF_GOTO", tac_operand_label(label_id), cond, tac_operand_none)

tac_emit_if_false_goto(ctx, f, cond, label_id) ==
    tac_emit(ctx, f, "IF_FALSE_GOTO", tac_operand_label(label_id), cond, tac_operand_none)

\* tac_new_temp / tac_new_label: the context after the post-increment
tac_new_temp(ctx) == [ctx EXCEPT !.next_temp = @ + 1]
tac_new_label(ctx) == [ctx EXCEPT !.next_label = @ + 1]

\* int t = tac_new_temp(prog); tac_emit(func, opcode, temp t, arg1, arg2);
\* val of the result is temp t
emit_to_new_temp(ctx, f, opcode, arg1, arg2) ==
    [tac_emit(tac_new_temp(ctx), f, opcode, tac_operand_temp(ctx.next_temp), arg1, arg2)
        EXCEPT !.val = tac_operand_temp(ctx.next_temp)]

\* tac_emit(func, opcode, result, val, none) with val the operand just computed
emit_val(ctx, f, opcode, result) ==
    tac_emit(ctx, f, opcode, result, ctx.val, tac_operand_none)

\* binop_result_type(op, left, right)
binop_result_type(op, left, right) ==
    IF op \in {"EQ", "NEQ", "LT", "GT", "LTE", "GTE", "AND", "OR", "BETWEEN"} THEN "TYPE_FLAG"
    ELSE IF op = "ADD" /\ (left = "TYPE_TEXT" \/ right = "TYPE_TEXT") THEN "TYPE_TEXT"
    ELSE IF left = "TYPE_DECIMAL" \/ right = "TYPE_DECIMAL" THEN "TYPE_DECIMAL"
    ELSE left

\* the data type of the temp just written (the result of the last instruction
\* of f) and of the operand returned: tac_operand_temp(t, type)
typed_temp(ctx, f, type) ==
    [ctx EXCEPT !.functions[f][Len(ctx.functions[f])].data_type = type, !.val_type = type]

\* AST_BINARY_OP after both operands: left is the first operand's value and
\* left_type its data type, the second one's are ctx.val and ctx.val_type
emit_binary_op(ctx, f, op, left, left_type) ==
    IF op = "ADD" /\ (left_type = "TYPE_TEXT" \/ ctx.val_type = "TYPE_TEXT")
    THEN typed_temp(emit_to_new_temp(ctx, f, "CONCAT", left, ctx.val), f, "TYPE_TEXT")
    ELSE typed_temp(emit_to_new_temp(ctx, f, operator_to_tac(op), left, ctx.val), f,
                    binop_result_type(op, left_type, ctx.val_type))

\* node->data_type != TYPE_UNKNOWN ? node->data_type : TYPE_NUMBER
known_type(node) == IF node.data_type # "TYPE_UNKNOWN" THEN node.data_type ELSE "TYPE_NUMBER"

\* AST_TERNARY_OP after the three operands: tac_emit3(func, TAC_BETWEEN, temp t,
\* val, lower, upper), where upper is ctx.val
emit_ternary_op(ctx, f, val, lower) ==
    [tac_new_temp(ctx) EXCEPT
        !.functions[f] = Append(@, [tac_instr_create(Len(@) + 1, "BETWEEN",
                                                     tac_operand_temp(ctx.next_temp), val, lower)
                                       EXCEPT !.a3 = ctx.val]),
        !.val = tac_operand_temp(ctx.next_temp)]

\* the Call just emitted into f, with the Params emitted for its own arguments
own_call(ctx, f, params) ==
    [ctx EXCEPT !.own = @ \cup {[func |-> f, call |-> Len(ctx.functions[f]),
                                 params |-> params]}]

\* AST_FUNC_CALL after the arguments: the Call into a fresh temp
emit_call_of(ctx, f, name, nargs) ==
    own_call(emit_to_new_temp(ctx, f, "CALL", tac_operand_func(name), tac_operand_int(nargs)),
             f, ctx.own_params)

\* AST_FUNC_CALL: the Call's temp has the call's type
emit_typed_call(ctx, f, node) ==
    typed_temp(emit_call_of(ctx, f, node.name, Len(node.kids)), f, known_type(node))

\* AST_FUNC_CALL, one argument evaluated: its Param
emit_param(ctx, f) ==
    [ctx EXCEPT !.functions[f] =
                    Append(@, tac_instr_create(Len(@) + 1, "PARAM", tac_operand_none,
                                               ctx.val, tac_operand_none)),
                !.own_params = << Len(ctx.functions[f]) + 1 >>]

\* the loop context set on entering a loop and restored on leaving it
loop_enter(ctx, break_label, continue_label) ==
    [ctx EXCEPT !.loop_break_label = break_label,
                !.loop_continue_label = continue_label,
                !.in_loop = @ + 1]

\* a leave that forgets the labels of the loop around
loop_leave_keeping(ctx, saved) == [ctx EXCEPT !.in_loop = @ - 1]

loop_leave(ctx, saved) ==
    [ctx EXCEPT !.in_loop = @ - 1,
                !.loop_break_label = saved.loop_break_label,
                !.loop_continue_label = saved.loop_continue_label]

\* AST_IF after the condition (ctx.val): the labels and the IfFalseGoto
if_begin(ctx, f, has_else) ==
    IF has_else
    THEN tac_emit_if_false_goto(tac_new_label(tac_new_label(ctx)), f, ctx.val, ctx.next_label)
    ELSE tac_emit_if_false_goto(tac_new_label(ctx), f, ctx.val, ctx.next_label)

\* AST_IF between the branches: Goto end_label; Label else_label
if_else(ctx, f, else_label, end_label) ==
    tac_emit_label(tac_emit_goto(ctx, f, end_label), f, else_label)

\* AST_WHILE before the condition: labels loop_start and loop_end, the loop
\* context, Label loop_start
while_begin(ctx, f) ==
    tac_emit_label(loop_enter(tac_new_label(tac_new_label(ctx)),
                              ctx.next_label + 1, ctx.next_label),
                   f, ctx.next_label)

\* AST_WHILE after the condition (ctx.val): IfFalseGoto loop_end
while_test(ctx, f, loop_end) == tac_emit_if_false_goto(ctx, f, ctx.val, loop_end)

\* AST_WHILE after the body (the test of next_temp, which is never negative,
\* only makes the body be evaluated first)
while_end(ctx, f, loop_start, loop_end, saved) ==
    IF ctx.next_temp >= 0
    THEN loop_leave(tac_emit_label(tac_emit_goto(ctx, f, loop_start), f, loop_end), saved)
    ELSE ctx

\* AST_REPEAT and AST_FOR_EACH after the first expression: the counter temp
\* loaded with 0, labels loop_start, loop_end, loop_inc, the loop context and
\* Label loop_start; val keeps the first expression's value
counter_begin(ctx, f) ==
    LET c2 == tac_emit(tac_new_temp(ctx), f, "LOAD_INT", tac_operand_temp(ctx.next_temp),
                       tac_operand_int(0), tac_operand_none)
        c3 == loop_enter(tac_new_label(tac_new_label(tac_new_label(c2))),
                         ctx.next_label + 1, ctx.next_label + 2)
    IN  tac_emit_label(c3, f, ctx.next_label)

\* cond = counter >= bound; IfGoto cond, loop_end
\* (the test of next_temp only makes what precedes be evaluated first)
counter_test(ctx, f, counter_t, bound, loop_end) ==
    IF ctx.next_temp >= 0
    THEN tac_emit_if_goto(
             tac_emit(tac_new_temp(ctx), f, "GTE", tac_operand_temp(ctx.next_temp),
                      tac_operand_temp(counter_t), bound),
             f, tac_operand_temp(ctx.next_temp), loop_end)
    ELSE ctx

\* AST_REPEAT from the count (ctx.val, the limit) to the body
repeat_begin(ctx, f) ==
    counter_test(counter_begin(ctx, f), f, ctx.next_temp, ctx.val, ctx.next_label + 1)

\* AST_FOR_EACH: the stale Call of __list_length marked dead, then Param list
\* and the Call with one argument, all into the temp len_t
list_length(ctx, f, list) ==
    LET len_t == tac_operand_temp(ctx.next_temp)
        c1 == tac_emit(tac_new_temp(ctx), f, "CALL", len_t,
                       tac_operand_func(0), tac_operand_int(0))
        last == Len(ctx.functions[f]) + 1
        c2 == [c1 EXCEPT !.functions[f][last].dead = TRUE]
        c3 == tac_emit(c2, f, "PARAM", tac_operand_none, list, tac_operand_none)
        c4 == tac_emit(c3, f, "CALL", len_t, tac_operand_func(0), tac_operand_int(1))
    IN  own_call(c4, f, << last + 1 >>)

\* AST_FOR_EACH: item = list[idx]
\* (the test of next_temp only makes the loop test be evaluated first)
for_each_item(ctx, f, name, list, idx_t) ==
    IF ctx.next_temp >= 0
    THEN emit_val(emit_to_new_temp(tac_emit(ctx, f, "DECL", tac_operand_var(name),
                                            tac_operand_none, tac_operand_none),
                                   f, "LIST_GET", list, tac_operand_temp(idx_t)),
                  f, "ASSIGN", tac_operand_var(name))
    ELSE ctx

\* AST_FOR_EACH from the iterable (ctx.val, the list) to the body
for_each_begin(ctx, f, name) ==
    LET idx_t == ctx.next_temp
        len_t == ctx.next_temp + 1
        c1 == list_length(counter_begin(ctx, f), f, ctx.val)
        c2 == counter_test(c1, f, idx_t, tac_operand_temp(len_t), ctx.next_label + 1)
    IN  for_each_item(c2, f, name, ctx.val, idx_t)

\* AST_REPEAT and AST_FOR_EACH after the body: Label loop_inc; the counter
\* incremented; Goto loop_start; Label loop_end; the loop context restored
\* (the test of next_temp only makes the body be evaluated first)
counter_end(ctx, f, counter_t, loop_start, saved) ==
    IF ctx.next_temp >= 0
    THEN loop_leave(
             tac_emit_label(
                 tac_emit_goto(
                     tac_emit(tac_emit_label(ctx, f, loop_start + 2), f, "ADD",
                              tac_operand_temp(counter_t), tac_operand_temp(counter_t),
                              tac_operand_int(1)),
                     f, loop_start),
                 f, loop_start + 1),
             saved)
    ELSE ctx

\* AST_FUNC_DECL before the body: tac_function_create, FuncBegin, the context
\* switched to the new function
func_begin(ctx, name) ==
    [tac_emit([ctx EXCEPT !.functions = Append(@, << >>)], Len(ctx.functions) + 1,
              "FUNC_BEGIN", tac_operand_func(name), tac_operand_none, tac_operand_none)
        EXCEPT !.current_func = Len(ctx.functions) + 1, !.in_function = 1]

\* AST_FUNC_DECL after the body: FuncEnd, the context restored,
\* tac_program_add_function (at the head of prog->functions)
func_end(ctx, saved) ==
    [tac_emit(ctx, ctx.current_func, "FUNC_END", tac_operand_none,
              tac_operand_none, tac_operand_none)
        EXCEPT !.current_func = saved.current_func, !.in_function = saved.in_function,
               !.listed = << ctx.current_func >> \o @]

RECURSIVE ir_gen_expression(_, _)
RECURSIVE ir_gen_args(_, _, _, _, _)
RECURSIVE ir_gen_elements(_, _, _, _, _)
RECURSIVE ir_gen_statement(_, _)
RECURSIVE ir_gen_statements(_, _, _)
RECURSIVE ir_gen_rest(_, _, _)

\* ir_gen_node: a program's statements in order, any other node as a statement
ir_gen_node(ctx, node) ==
    IF node.type = "AST_PROGRAM" THEN ir_gen_statements(ctx, node.kids, 1)
    ELSE ir_gen_statement(ctx, node)

\* the statements from i on, after the statement before them has left ctx (the
\* test of next_temp, which is never negative, only makes that statement be
\* evaluated before the next)
ir_gen_rest(ctx, stmts, i) ==
    IF ctx.next_temp >= 0 THEN ir_gen_statements(ctx, stmts, i) ELSE ctx

\* for (i = 0; i < stmts->count; i++) ir_gen_statement(ctx, stmts->nodes[i])
ir_gen_statements(ctx, stmts, i) ==
    IF i > Len(stmts) THEN ctx
    ELSE ir_gen_rest(ir_gen_statement(ctx, stmts[i]), stmts, i + 1)

\* AST_FUNC_CALL, "Evaluate and push parameters in order", for the arguments
\* lo .. hi in order (the range is halved to keep the evaluation shallow, and
\* the test of next_temp, which is never negative, only makes the first half
\* be evaluated before the second); own_params of the result lists the Params
\* emitted for these arguments
ir_gen_args(ctx, f, args, lo, hi) ==
    IF lo > hi THEN [ctx EXCEPT !.own_params = << >>]
    ELSE IF lo = hi THEN emit_param(ir_gen_expression(ctx, args[lo]), f)
    ELSE LET mid == (lo + hi) \div 2
             c1 == ir_gen_args(ctx, f, args, lo, mid)
         IN  IF c1.next_temp >= 0
             THEN LET c2 == ir_gen_args(c1, f, args, mid + 1, hi)
                  IN  [c2 EXCEPT !.own_params = c1.own_params \o c2.own_params]
             ELSE c1

\* AST_LIST, the loop over the elements from i on: the element's value, then
\* tac_emit(func, TAC_LIST_APPEND, temp t, elem, none) with the list in the
\* result slot
ir_gen_elements(ctx, f, t, elems, i) ==
    IF i > Len(elems) THEN ctx
    ELSE ir_gen_elements(emit_val(ir_gen_expression(ctx, elems[i]), f, "LIST_APPEND",
                                  tac_operand_temp(t)),
                         f, t, elems, i + 1)

\* AST_ASSIGN to list[idx]: tac_emit3(func, TAC_LIST_SET, arr, idx, val, none),
\* the list in the result slot; ctx.val is idx
emit_list_set(ctx, f, arr, val) ==
    tac_emit(ctx, f, "LIST_SET", arr, ctx.val, val)

ir_gen_expression(ctx, node) ==
    LET f == ctx.current_func IN
    CASE node.type = "AST_LITERAL_INT" ->
           typed_temp(emit_to_new_temp(ctx, f, "LOAD_INT", tac_operand_int(node.value),
                                       tac_operand_none), f, "TYPE_NUMBER")
      [] node.type = "AST_LITERAL_FLOAT" ->
           typed_temp(emit_to_new_temp(ctx, f, "LOAD_FLOAT", tac_operand_float(node.value, 1),
                                       tac_operand_none), f, "TYPE_DECIMAL")
      [] node.type = "AST_LITERAL_STRING" ->
           typed_temp(emit_to_new_temp(ctx, f, "LOAD_STRING", tac_operand_string(node.value),
                                       tac_operand_none), f, "TYPE_TEXT")
      [] node.type = "AST_LITERAL_BOOL" ->
           typed_temp(emit_to_new_temp(ctx, f, "LOAD_BOOL", tac_operand_bool(node.value),
                                       tac_operand_none), f, "TYPE_FLAG")
      [] node.type = "AST_IDENTIFIER" ->
           [ctx EXCEPT !.val = tac_operand_var(node.name), !.val_type = known_type(node)]
      [] node.type = "AST_BINARY_OP" ->
           LET c1 == ir_gen_expression(ctx, node.kids[1])
           IN  emit_binary_op(ir_gen_expression(c1, node.kids[2]), f, node.op,
                              c1.val, c1.val_type)
      [] node.type = "AST_TERNARY_OP" ->
           LET c1 == ir_gen_expression(ctx, node.kids[1])
               c2 == ir_gen_expression(c1, node.kids[2])
           IN  typed_temp(emit_ternary_op(ir_gen_expression(c2, node.kids[3]), f, c1.val, c2.val),
                          f, "TYPE_FLAG")
      [] node.type = "AST_FUNC_CALL" ->
           emit_typed_call(ir_gen_args(ctx, f, node.kids, 1, Len(node.kids)), f, node)
      [] node.type = "AST_LIST" ->
           [ir_gen_elements(typed_temp(emit_to_new_temp(ctx, f, "LIST_CREATE",
                                                        tac_operand_int(Len(node.kids)),
                                                        tac_operand_none), f, "TYPE_LIST"),
                            f, ctx.next_temp, node.kids, 1)
               EXCEPT !.val = tac_operand_temp(ctx.next_temp), !.val_type = "TYPE_LIST"]
      [] node.type = "AST_INDEX" ->
           LET c1 == ir_gen_expression(ctx, node.kids[1])
               c2 == ir_gen_expression(c1, node.kids[2])
           IN  typed_temp(emit_to_new_temp(c2, f, "LIST_GET", c1.val, c2.val), f,
                          known_type(node))
      [] OTHER -> \* if (!node) return tac_operand_none();
           [ctx EXCEPT !.val = tac_operand_none]

\* (the context is evaluated before the statement is looked at)
ir_gen_statement(ctx, node) ==
    LET f == ctx.current_func IN
    CASE ctx.next_temp < 0 -> ctx
      [] node.type = "AST_VAR_DECL" ->
           LET c1 == tac_emit(ctx, f, "DECL", tac_operand_var(node.name),
                              tac_operand_none, tac_operand_none)
           IN  IF node.kids[1] = ast_null THEN c1
               ELSE emit_val(ir_gen_expression(c1, node.kids[1]), f, "ASSIGN",
                             tac_operand_var(node.name))
      [] node.type = "AST_ASSIGN" ->
           IF node.name # 0
           THEN \* the target is an identifier
                emit_val(ir_gen_expression(ctx, node.kids[1]), f, "ASSIGN",
                         tac_operand_var(node.name))
           ELSE \* the target is an index: the value, the list, the index
                LET c1 == ir_gen_expression(ctx, node.kids[1])
                    c2 == ir_gen_expression(c1, node.kids[2].kids[1])
                IN  emit_list_set(ir_gen_expression(c2, node.kids[2].kids[2]), f,
                                  c2.val, c1.val)
      [] node.type = "AST_DISPLAY" ->
           emit_val(ir_gen_expression(ctx, node.kids[1]), f, "DISPLAY", tac_operand_none)
      [] node.type = "AST_IF" ->
           LET c1 == ir_gen_expression(ctx, node.kids[1])
               c2 == ir_gen_node(if_begin(c1, f, node.kids[3] # ast_null), node.kids[2])
           IN  IF node.kids[3] # ast_null
               THEN \* else_label, end_label
                    tac_emit_label(
                        ir_gen_node(if_else(c2, f, c1.next_label, c1.next_label + 1),
                                    node.kids[3]),
                        f, c1.next_label + 1)
               ELSE tac_emit_label(c2, f, c1.next_label)
      [] node.type = "AST_WHILE" ->
           \* loop_start, loop_end
           LET c1 == ir_gen_expression(while_begin(ctx, f), node.kids[1])
               c2 == ir_gen_node(while_test(c1, f, ctx.next_label + 1), node.kids[2])
           IN  while_end(c2, f, ctx.next_label, ctx.next_label + 1, ctx)
      [] node.type = "AST_REPEAT" ->
           \* limit, then iter_t and loop_start
           LET c1 == ir_gen_expression(ctx, node.kids[1])
               c2 == ir_gen_node(repeat_begin(c1, f), node.kids[2])
           IN  counter_end(c2, f, c1.next_temp, c1.next_label, ctx)
      [] node.type = "AST_FOR_EACH" ->
           \* list, then idx_t and loop_start
           LET c1 == ir_gen_expression(ctx, node.kids[1])
               c2 == ir_gen_node(for_each_begin(c1, f, node.name), node.kids[2])
           IN  counter_end(c2, f, c1.next_temp, c1.next_label, ctx)
      [] node.type = "AST_FUNC_DECL" ->
           func_end(ir_gen_node(func_begin(ctx, node.name), node.kids[1]), ctx)
      [] node.type = "AST_RETURN" ->
           IF node.kids[1] # ast_null
           THEN emit_val(ir_gen_expression(ctx, node.kids[1]), f, "RETURN", tac_operand_none)
           ELSE tac_emit(ctx, f, "RETURN", tac_operand_none, tac_operand_none, tac_operand_none)
      [] node.type = "AST_BREAK" ->
           IF ctx.in_loop # 0 THEN tac_emit_goto(ctx, f, ctx.loop_break_label) ELSE ctx
      [] node.type = "AST_CONTINUE" ->
           IF ctx.in_loop # 0 THEN tac_emit_goto(ctx, f, ctx.loop_continue_label) ELSE ctx
      [] node.type = "AST_EXPR_STMT" ->
           ir_gen_expression(ctx, node.kids[1])
      [] node.type = "AST_BLOCK" ->
           tac_emit(ir_gen_statements(
                        tac_emit(ctx, f, "SCOPE_BEGIN", tac_operand_none,
                                 tac_operand_none, tac_operand_none),
                        node.kids, 1),
                    f, "SCOPE_END", tac_operand_none, tac_operand_none, tac_operand_none)
      [] OTHER -> ctx

\* what ir_generate returns for the context the walk ended in: the program's
\* functions, main_func first and then prog->functions in list order; own
\* names a function by its place in that sequence
tac_program_of(ctx) ==
    LET order == << 1 >> \o ctx.listed
        PlaceOf(h) == CHOOSE k \in 1 .. Len(order) : order[k] = h
    IN  [funcs |-> [k \in 1 .. Len(order) |-> ctx.functions[order[k]]],
         own |-> {[o EXCEPT !.func = PlaceOf(o.func)] : o \in ctx.own}]

ir_generate(ast_root) == tac_program_of(ir_gen_node(ir_context_create, ast_root))

(***************************************************************************)
(* C arithmetic on long long (values stay far inside the 64-bit range in   *)
(* every program explored here) and on double (exact rationals n / d)      *)
(***************************************************************************)
CDiv(a, b) ==
    LET q == Abs(a) \div Abs(b)
    IN  IF (a < 0) = (b < 0) THEN q ELSE -q

CMod(a, b) == a - b * CDiv(a, b)

RECURSIVE IntPow(_, _)
\* ia to the power ib, ib >= 0, for the numerators and denominators of pow(a, b)
IntPow(ia, ib) == IF ib <= 0 THEN 1 ELSE ia * IntPow(ia, ib - 1)

(***************************************************************************)
(* long long as it is stored: 64 bits in two's complement, here the four   *)
(* 16-bit digits of the pattern, least significant first.  The operands of *)
(* this model hold integers below 2^31 in magnitude; int_result of the Pow *)
(* loop is kept as its pattern, because it passes through every power.     *)
(***************************************************************************)
Digit == 65536

RECURSIVE ll_increment(_, _)
\* the pattern plus one from digit i on (the carry out of the last digit is lost)
ll_increment(u, i) ==
    IF i > Len(u) THEN u
    ELSE IF u[i] = Digit - 1 THEN ll_increment([u EXCEPT ![i] = 0], i + 1)
    ELSE [u EXCEPT ![i] = @ + 1]

\* the pattern of -x from the pattern of x
ll_negate(u) == ll_increment([i \in 1 .. Len(u) |-> Digit - 1 - u[i]], 1)

ll_is_negative(u) == u[4] >= Digit \div 2

\* |x| as an unsigned pattern (2^63 for LLONG_MIN)
ll_magnitude(u) == IF ll_is_negative(u) THEN ll_negate(u) ELSE u

\* the pattern of an integer n of the model
ll_of_int(n) ==
    IF n >= 0 THEN << n % Digit, n \div Digit, 0, 0 >>
    ELSE ll_negate(<< (-n) % Digit, (-n) \div Digit, 0, 0 >>)

\* the integer of a pattern; a value of 2^31 or more in magnitude is the
\* untracked integer [kind int, d = 0], which no program explored here leaves
\* in an instruction
ll_operand(u) ==
    LET m == ll_magnitude(u)
    IN  IF m[3] = 0 /\ m[4] = 0 /\ m[2] < Digit \div 2
        THEN tac_operand_int(IF ll_is_negative(u) THEN -(m[1] + Digit * m[2])
                             ELSE m[1] + Digit * m[2])
        ELSE [kind |-> "int", v |-> 0, d |-> 0]

RECURSIVE ll_times(_, _, _, _)
\* the exact product of the unsigned pattern u and k, 0 <= k < 2^15, from
\* digit i on: five digits
ll_times(u, k, i, carry) ==
    IF i > Len(u) THEN << carry >>
    ELSE << (u[i] * k + carry) % Digit >> \o ll_times(u, k, i + 1, (u[i] * k + carry) \div Digit)

\* the exact product has magnitude wide and is negative iff neg: it is a long
\* long iff it lies in LLONG_MIN .. LLONG_MAX
ll_representable(wide, neg) ==
    /\ wide[5] = 0
    /\ \/ wide[4] < Digit \div 2
       \/ neg /\ wide = << 0, 0, 0, Digit \div 2, 0 >>

\* int_result *= ia as the machine multiplies: the low 64 bits of the product
ll_product(wide, neg) == IF neg THEN ll_negate(SubSeq(wide, 1, 4)) ELSE SubSeq(wide, 1, 4)

\* one round of the Pow loop on st = [bits, overflow]
pow_round(st, ia, wide, neg) ==
    [bits |-> ll_product(wide, neg),
     overflow |-> st.overflow \/ ~ll_representable(wide, neg)]

pow_step(st, ia) ==
    pow_round(st, ia, ll_times(ll_magnitude(st.bits), Abs(ia), 1, 0),
              ll_is_negative(st.bits) # (ia < 0))

RECURSIVE pow_loop(_, _, _)
RECURSIVE pow_rest(_, _, _)
\* the rounds after the one that left st (the test of overflow only makes that
\* round be evaluated before the next)
pow_rest(st, ia, n) == IF st.overflow \in BOOLEAN THEN pow_loop(st, ia, n) ELSE st

\* int_result = 1; for (i = 0; i < ib; i++) int_result *= ia;  n rounds are left
\* (the first half of the rounds, then the rest of them)
pow_loop(st, ia, n) ==
    IF n <= 0 THEN st
    ELSE IF n = 1 THEN pow_step(st, ia)
    ELSE pow_rest(pow_loop(st, ia, n \div 2), ia, n - (n \div 2))

FAdd(a, b) == tac_operand_float(a.v * b.d + b.v * a.d, a.d * b.d)
FSub(a, b) == tac_operand_float(a.v * b.d - b.v * a.d, a.d * b.d)
FMul(a, b) == tac_operand_float(a.v * b.v, a.d * b.d)
FDiv(a, b) == tac_operand_float(a.v * b.d, a.d * b.v)
FLt(a, b) == a.v * b.d < b.v * a.d
FEq(a, b) == a.v * b.d = b.v * a.d

\* pow(a, b) of <math.h> where the result is a rational this model tracks:
\* an integral exponent, and a nonzero base when the exponent is negative.
\* Every other result (infinite, NaN, irrational) is the untracked double
\* [kind float, d = 0], which no program explored here computes with.
FPow(a, b) ==
    IF b.d = 1 /\ b.v >= 0
    THEN tac_operand_float(IntPow(a.v, b.v), IntPow(a.d, b.v))
    ELSE IF b.d = 1 /\ a.v # 0
    THEN tac_operand_float(IntPow(a.d, -b.v), IntPow(a.v, -b.v))
    ELSE [kind |-> "float", v |-> 0, d |-> 0]

\* get_numeric_value: the operand as a double
get_numeric_value(op) ==
    IF op.kind = "int" \/ op.kind = "float" THEN tac_operand_float(op.v, op.d)
    ELSE tac_operand_float(0, 1)

\* instr->arg2.val.int_val read through the union: the integer itself, and
\* for a double its bit pattern, which is 0 exactly for +0.0.  The model
\* keeps only whether the pattern is zero (1 stands for any nonzero pattern).
int_val_bits(op) ==
    IF op.kind = "float" THEN (IF op.v = 0 THEN 0 ELSE 1) ELSE op.v

(***************************************************************************)
(* PASS 1: constant folding                                                *)
(***************************************************************************)
NoFold == [folded |-> FALSE, val |-> tac_operand_none, trap |-> FALSE, overflow |-> FALSE]
Folded(c) == [folded |-> TRUE, val |-> c, trap |-> FALSE, overflow |-> FALSE]
\* the Pow loop has run: overflow tells that one of its multiplications had a
\* product that is no long long, which is undefined
FoldedPow(st) ==
    [folded |-> TRUE, val |-> ll_operand(st.bits), trap |-> FALSE, overflow |-> st.overflow]
\* the C expression ia / ib, ia % ib or a / b evaluated with a zero divisor: the
\* fault is recorded in trap, the value left in the instruction is immaterial
Trapped == [folded |-> TRUE, val |-> tac_operand_int(0), trap |-> TRUE, overflow |-> FALSE]

BoolOf(p) == tac_operand_bool(IF p THEN 1 ELSE 0)

\* the switch without the zero test of TAC_DIV
div_is_zero_unchecked(b) == FALSE

\* case TAC_DIV: if (b == 0.0) { folded = false; break; }
div_is_zero(b) == FEq(b, tac_operand_float(0, 1))

\* case TAC_MOD: if (ib == 0) { folded = false; break; }
mod_is_zero(ib) == ib = 0

\* the switch of opt_constant_folding on a binary opcode with two numeric constants
fold_binary(opcode, arg1, arg2) ==
    LET a == get_numeric_value(arg1)
        b == get_numeric_value(arg2)
        both_int == is_int_const(arg1) /\ is_int_const(arg2)
        ia == int_val_bits(arg1)
        ib == int_val_bits(arg2)
    IN  CASE opcode = "ADD" ->
               IF both_int THEN Folded(tac_operand_int(ia + ib)) ELSE Folded(FAdd(a, b))
          [] opcode = "SUB" ->
               IF both_int THEN Folded(tac_operand_int(ia - ib)) ELSE Folded(FSub(a, b))
          [] opcode = "MUL" ->
               IF both_int THEN Folded(tac_operand_int(ia * ib)) ELSE Folded(FMul(a, b))
          [] opcode = "DIV" ->
               IF div_is_zero(b) THEN NoFold
               ELSE IF b.v = 0 THEN Trapped
               ELSE IF both_int THEN Folded(tac_operand_int(CDiv(ia, ib)))
               ELSE Folded(FDiv(a, b))
          [] opcode = "MOD" ->
               IF mod_is_zero(ib) THEN NoFold
               ELSE IF both_int
                    THEN (IF ib = 0 THEN Trapped ELSE Folded(tac_operand_int(CMod(ia, ib))))
                    ELSE NoFold
          [] opcode = "POW" ->
               IF both_int /\ ib >= 0
               THEN FoldedPow(pow_loop([bits |-> ll_of_int(1), overflow |-> FALSE], ia, ib))
               ELSE Folded(FPow(a, b))
          [] opcode = "EQ" -> Folded(BoolOf(FEq(a, b)))
          [] opcode = "NEQ" -> Folded(BoolOf(~FEq(a, b)))
          [] opcode = "LT" -> Folded(BoolOf(FLt(a, b)))
          [] opcode = "GT" -> Folded(BoolOf(FLt(b, a)))
          [] opcode = "LTE" -> Folded(BoolOf(~FLt(b, a)))
          [] opcode = "GTE" -> Folded(BoolOf(~FLt(a, b)))
          [] OTHER -> NoFold

LoadOpcodeOf(c) ==
    IF c.kind = "bool" THEN "LOAD_BOOL"
    ELSE IF c.kind = "int" THEN "LOAD_INT" ELSE "LOAD_FLOAT"

\* "Binary ops with two numeric constants"
fold_step_binary(r) ==
    LET instr == r.instr IN
    IF is_binary_op(instr.op) /\ is_numeric_const(instr.a1) /\ is_numeric_const(instr.a2)
    THEN LET f == fold_binary(instr.op, instr.a1, instr.a2)
         IN  IF f.folded
             THEN [instr |-> LoadOf(instr, LoadOpcodeOf(f.val), f.val),
                   count |-> r.count + 1, trap |-> r.trap \/ f.trap,
                   overflow |-> r.overflow \/ f.overflow]
             ELSE r
    ELSE r

\* "Unary ops with constant operand": only TAC_NEG is folded here
fold_step_unary(r) ==
    LET instr == r.instr IN
    IF is_unary_op(instr.op) /\ is_numeric_const(instr.a1) /\ instr.op = "NEG"
    THEN IF is_int_const(instr.a1)
         THEN [r EXCEPT !.instr = LoadOf(instr, "LOAD_INT", set_int_const(-instr.a1.v)),
                        !.count = r.count + 1]
         ELSE [r EXCEPT !.instr = LoadOf(instr, "LOAD_FLOAT",
                                         set_float_const(-instr.a1.v, instr.a1.d)),
                        !.count = r.count + 1]
    ELSE r

\* "NOT with bool constant"
fold_step_not(r) ==
    LET instr == r.instr IN
    IF instr.op = "NOT" /\ is_bool_const(instr.a1)
    THEN [r EXCEPT !.instr = LoadOf(instr, "LOAD_BOOL",
                                    set_bool_const(IF instr.a1.v = 0 THEN 1 ELSE 0)),
                   !.count = r.count + 1]
    ELSE r

\* "AND/OR with bool constants"
fold_step_andor(r) ==
    LET instr == r.instr IN
    IF (instr.op = "AND" \/ instr.op = "OR")
       /\ is_bool_const(instr.a1) /\ is_bool_const(instr.a2)
    THEN LET val == IF instr.op = "AND"
                    THEN BoolOf(instr.a1.v # 0 /\ instr.a2.v # 0)
                    ELSE BoolOf(instr.a1.v # 0 \/ instr.a2.v # 0)
         IN  [r EXCEPT !.instr = LoadOf(instr, "LOAD_BOOL", val),
                       !.count = r.count + 1]
    ELSE r

\* the body of the for loop of opt_constant_folding for one live instruction
fold_instr(instr) ==
    fold_step_andor(fold_step_not(fold_step_unary(fold_step_binary(
        [instr |-> instr, count |-> 0, trap |-> FALSE, overflow |-> FALSE]))))

\* one round of the for loop: st = [func, count, trap] before instruction i
fold_visit(st, i) ==
    IF st.func[i].dead THEN st
    ELSE LET r == fold_instr(st.func[i])
         IN  [func |-> [st.func EXCEPT ![i] = r.instr],
              count |-> st.count + r.count, trap |-> st.trap \/ r.trap,
              overflow |-> st.overflow \/ r.overflow]

RECURSIVE fold_loop(_, _, _)
\* the rounds for the instructions lo .. hi in list order (the range is halved
\* to keep the evaluation shallow; the order of the visits is that of the list,
\* and the test of s1.count, which is never negative, only makes the first half
\* be evaluated before the second)
fold_loop(st, lo, hi) ==
    IF lo > hi THEN st
    ELSE IF lo = hi THEN fold_visit(st, lo)
    ELSE LET mid == (lo + hi) \div 2
             s1 == fold_loop(st, lo, mid)
         IN  IF s1.count >= 0 THEN fold_loop(s1, mid + 1, hi) ELSE s1

opt_constant_folding(f) ==
    fold_loop([func |-> f, count |-> 0, trap |-> FALSE, overflow |-> FALSE], 1, Len(f))

(***************************************************************************)
(* PASS 2: constant propagation                                            *)
(* const_table is the sequence of the entries [temp_id, value, valid] at   *)
(* indexes 0 .. const_table_count-1; const_table_clear leaves it empty.    *)
(***************************************************************************)
MAX_CONSTS == 4096

\* the table of a process that has not run the pass
no_consts == << >>

\* the table as it is found where const_table_clear is not called
const_table_kept(tab) == tab

\* const_table_count = 0: no entry is at an index below the count
const_table_clear(tab) == SubSeq(tab, 1, 0)

\* the least element of a nonempty set of indexes
FirstOf(S) == CHOOSE i \in S : \A j \in S : i <= j

\* for (i = 0; i < const_table_count; i++) if (const_table[i].temp_id == temp_id):
\* the first such index, 0 when there is none
const_table_find(tab, temp_id) ==
    LET S == {i \in 1 .. Len(tab) : tab[i].temp_id = temp_id}
    IN  IF S = {} THEN 0 ELSE FirstOf(S)

const_table_set(tab, temp_id, val) ==
    LET i == const_table_find(tab, temp_id)
    IN  IF i # 0 THEN [tab EXCEPT ![i] = [temp_id |-> temp_id, value |-> val, valid |-> TRUE]]
        ELSE IF Len(tab) < MAX_CONSTS
        THEN Append(tab, [temp_id |-> temp_id, value |-> val, valid |-> TRUE])
        ELSE tab

const_table_invalidate(tab, temp_id) ==
    LET i == const_table_find(tab, temp_id)
    IN  IF i # 0 THEN [tab EXCEPT ![i].valid = FALSE] ELSE tab

\* the known constant of temp_id, tac_operand_none for NULL
const_table_get(tab, temp_id) ==
    LET i == const_table_find(tab, temp_id)
    IN  IF i # 0 /\ tab[i].valid THEN tab[i].value ELSE tac_operand_none

\* try_propagate: [op |-> the operand afterwards, done |-> the return value]
try_propagate(tab, op) ==
    IF op.kind # "temp" THEN [op |-> op, done |-> FALSE]
    ELSE LET known == const_table_get(tab, op.v)
         IN  IF known.kind \in {"int", "float", "bool"}
             THEN [op |-> known, done |-> TRUE]
             ELSE [op |-> op, done |-> FALSE]

\* the operands try_propagate is applied to
prop_instr(tab, instr) ==
    LET p1 == try_propagate(tab, instr.a1)
        p2 == try_propagate(tab, instr.a2)
    IN  [instr |-> [instr EXCEPT !.a1 = p1.op, !.a2 = p2.op],
         count |-> (IF p1.done THEN 1 ELSE 0) + (IF p2.done THEN 1 ELSE 0)]

prop_boundary_calls(opcode) == opcode \in {"FUNC_BEGIN", "CALL"}

\* opcodes at which opt_constant_propagation clears the table
prop_boundary(opcode) == opcode \in {"LABEL", "FUNC_BEGIN", "CALL"}

LoadKindOf(opcode) ==
    IF opcode = "LOAD_INT" THEN "int"
    ELSE IF opcode = "LOAD_FLOAT" THEN "float" ELSE "bool"

\* one round of the for loop: st = [func, count, table] before instruction i
prop_visit(st, i) ==
    LET instr == st.func[i] IN
    IF instr.dead THEN st
    ELSE IF prop_boundary(instr.op) THEN [st EXCEPT !.table = const_table_clear(st.table)]
    ELSE IF is_temp(instr.res) /\ instr.op \in {"LOAD_INT", "LOAD_FLOAT", "LOAD_BOOL"}
    THEN \* record the constant, then `continue'
         IF instr.a1.kind = LoadKindOf(instr.op)
         THEN [st EXCEPT !.table = const_table_set(st.table, instr.res.v, instr.a1)]
         ELSE st
    ELSE LET r == prop_instr(st.table, instr)
         IN  [func |-> [st.func EXCEPT ![i] = r.instr],
              count |-> st.count + r.count,
              table |-> IF is_temp(instr.res)
                        THEN const_table_invalidate(st.table, instr.res.v)
                        ELSE st.table]

RECURSIVE prop_loop(_, _, _)
prop_loop(st, lo, hi) ==
    IF lo > hi THEN st
    ELSE IF lo = hi THEN prop_visit(st, lo)
    ELSE LET mid == (lo + hi) \div 2
             s1 == prop_loop(st, lo, mid)
         IN  IF s1.count >= 0 THEN prop_loop(s1, mid + 1, hi) ELSE s1

\* const_table_clear(), then the for loop over the list; tab is the
\* module-level table as the call finds it
opt_constant_propagation_from(tab, f) ==
    prop_loop([func |-> f, count |-> 0, table |-> const_table_clear(tab)], 1, Len(f))

\* the pass in a process that has not run it before
opt_constant_propagation(f) == opt_constant_propagation_from(no_consts, f)

(***************************************************************************)
(* PASS 3: algebraic simplification                                        *)
(***************************************************************************)
is_zero(op) == (is_int_const(op) /\ op.v = 0) \/ (is_float_const(op) /\ op.v = 0 /\ op.d # 0)
is_one_or_two(op) == is_int_const(op) /\ op.v \in {1, 2}

is_one(op) == (is_int_const(op) /\ op.v = 1) \/ (is_float_const(op) /\ op.v = 1 /\ op.d = 1)

\* the switch of opt_algebraic_simplification: [instr, count]
alg_instr(instr) ==
    LET a1 == instr.a1
        a2 == instr.a2
        a1_zero == is_zero(a1)
        a2_zero == is_zero(a2)
        a1_one == is_one(a1)
        a2_one == is_one(a2)
        Same == [instr |-> instr, count |-> 0]
        Assign(src) == [instr |-> convert_to_assign(instr, src), count |-> 1]
        Load(c) == [instr |-> LoadOf(instr, "LOAD_INT", set_int_const(c)), count |-> 1]
    IN  CASE instr.op = "ADD" ->
               IF a2_zero THEN Assign(a1) ELSE IF a1_zero THEN Assign(a2) ELSE Same
          [] instr.op = "SUB" ->
               IF a2_zero THEN Assign(a1) ELSE IF same_temp(a1, a2) THEN Load(0) ELSE Same
          [] instr.op = "MUL" ->
               IF a1_zero \/ a2_zero THEN Load(0)
               ELSE IF a2_one THEN Assign(a1)
               ELSE IF a1_one THEN Assign(a2) ELSE Same
          [] instr.op = "DIV" ->
               IF a2_one THEN Assign(a1) ELSE Same
          [] instr.op = "POW" ->
               IF a2_zero THEN Load(1) ELSE IF a2_one THEN Assign(a1) ELSE Same
          [] OTHER -> Same

alg_visit(st, i) ==
    IF st.func[i].dead THEN st
    ELSE LET r == alg_instr(st.func[i])
         IN  [func |-> [st.func EXCEPT ![i] = r.instr], count |-> st.count + r.count]

RECURSIVE alg_loop(_, _, _)
alg_loop(st, lo, hi) ==
    IF lo > hi THEN st
    ELSE IF lo = hi THEN alg_visit(st, lo)
    ELSE LET mid == (lo + hi) \div 2
             s1 == alg_loop(st, lo, mid)
         IN  IF s1.count >= 0 THEN alg_loop(s1, mid + 1, hi) ELSE s1

opt_algebraic_simplification(f) == alg_loop([func |-> f, count |-> 0], 1, Len(f))

(***************************************************************************)
(* PASS 4: strength reduction                                              *)
(***************************************************************************)
is_int_two(op) == is_int_const(op) /\ op.v = 2

str_instr(instr) ==
    LET m == IF instr.op = "MUL"
             THEN IF is_int_two(instr.a2)
                  THEN [instr |-> [instr EXCEPT !.op = "ADD", !.a2 = instr.a1], count |-> 1]
                  ELSE IF is_int_two(instr.a1)
                  THEN [instr |-> [instr EXCEPT !.op = "ADD", !.a1 = instr.a2], count |-> 1]
                  ELSE [instr |-> instr, count |-> 0]
             ELSE [instr |-> instr, count |-> 0]
    IN  IF m.instr.op = "POW" /\ is_int_two(m.instr.a2)
        THEN [instr |-> [m.instr EXCEPT !.op = "MUL", !.a2 = m.instr.a1],
              count |-> m.count + 1]
        ELSE m

str_visit(st, i) ==
    IF st.func[i].dead THEN st
    ELSE LET r == str_instr(st.func[i])
         IN  [func |-> [st.func EXCEPT ![i] = r.instr], count |-> st.count + r.count]

RECURSIVE str_loop(_, _, _)
str_loop(st, lo, hi) ==
    IF lo > hi THEN st
    ELSE IF lo = hi THEN str_visit(st, lo)
    ELSE LET mid == (lo + hi) \div 2
             s1 == str_loop(st, lo, mid)
         IN  IF s1.count >= 0 THEN str_loop(s1, mid + 1, hi) ELSE s1

opt_strength_reduction(f) == str_loop([func |-> f, count |-> 0], 1, Len(f))

(***************************************************************************)
(* PASS 5: redundant load elimination                                      *)
(* recent is the sequence recent[0 .. recent_count-1]                      *)
(***************************************************************************)
MAX_RECENT == 256

\* opcodes at which opt_redundant_load_elimination resets recent_count
rle_boundary(opcode) ==
    opcode \in {"LABEL", "FUNC_BEGIN", "CALL", "GOTO", "IF_GOTO", "IF_FALSE_GOTO"}

is_load(opcode) == opcode \in {"LOAD_INT", "LOAD_FLOAT", "LOAD_BOOL"}

\* the test `match' of one recent entry against a load
rle_match(entry, instr) ==
    /\ entry.valid
    /\ entry.opcode = instr.op
    /\ instr.a1.kind = LoadKindOf(instr.op)
    /\ entry.val.v = instr.a1.v
    /\ entry.val.d = instr.a1.d

\* "Search for matching recent load": the first matching index of recent, 0
\* when the search loop ends without a match
rle_search(recent, instr) ==
    LET S == {i \in 1 .. Len(recent) : rle_match(recent[i], instr)}
    IN  IF S = {} THEN 0 ELSE FirstOf(S)

\* "Record this load": if (recent_count < MAX_RECENT)
rle_record(recent, instr) ==
    IF Len(recent) < MAX_RECENT
    THEN Append(recent, [opcode |-> instr.op, val |-> instr.a1,
                         temp_id |-> instr.res.v, valid |-> TRUE])
    ELSE recent

\* one round of the for loop: st = [func, count, recent] before instruction i
rle_visit(st, i) ==
    LET instr == st.func[i] IN
    IF instr.dead THEN st
    ELSE IF rle_boundary(instr.op) THEN [st EXCEPT !.recent = << >>]
    ELSE IF is_temp(instr.res) /\ is_load(instr.op)
    THEN LET m == rle_search(st.recent, instr)
         IN  IF m # 0
             THEN [st EXCEPT !.func[i] =
                                convert_to_assign(instr, tac_operand_temp(st.recent[m].temp_id)),
                             !.count = st.count + 1]
             ELSE [st EXCEPT !.recent = rle_record(st.recent, instr)]
    ELSE st

RECURSIVE rle_loop(_, _, _)
rle_loop(st, lo, hi) ==
    IF lo > hi THEN st
    ELSE IF lo = hi THEN rle_visit(st, lo)
    ELSE LET mid == (lo + hi) \div 2
             s1 == rle_loop(st, lo, mid)
         IN  IF s1.count >= 0 THEN rle_loop(s1, mid + 1, hi) ELSE s1

opt_redundant_load_elimination(f) ==
    rle_loop([func |-> f, count |-> 0, recent |-> << >>], 1, Len(f))

(***************************************************************************)
(* PASS 6: dead code elimination                                           *)
(***************************************************************************)
has_side_effect(opcode) ==
    opcode \in {"DISPLAY", "READ", "ASK", "CALL", "PARAM", "RETURN", "GOTO",
                "IF_GOTO", "IF_FALSE_GOTO", "LABEL", "FUNC_BEGIN", "FUNC_END",
                "SCOPE_BEGIN", "SCOPE_END", "SECURE_BEGIN", "SECURE_END",
                "DECL", "BREAK", "CONTINUE", "LIST_APPEND", "LIST_SET"}

\* one instruction reads temp_id in arg1, arg2 or arg3
uses_temp(instr, temp_id) ==
    \/ instr.a1.kind = "temp" /\ instr.a1.v = temp_id
    \/ instr.a2.kind = "temp" /\ instr.a2.v = temp_id
    \/ instr.a3.kind = "temp" /\ instr.a3.v = temp_id

\* a scan that stops at the forward half
temp_is_used_forward(f, start, temp_id) ==
    \E j \in (start + 1) .. Len(f) : ~f[j].dead /\ uses_temp(f[j], temp_id)

\* the forward scan from start->next and the backward scan from start->prev
temp_is_used_after(f, start, temp_id) ==
    \/ \E j \in (start + 1) .. Len(f) : ~f[j].dead /\ uses_temp(f[j], temp_id)
    \/ \E j \in 1 .. (start - 1) : ~f[j].dead /\ uses_temp(f[j], temp_id)

\* the instruction at i is marked dead by the loop body of opt_dead_code_elimination
dce_marks(f, i) ==
    /\ ~f[i].dead
    /\ ~has_side_effect(f[i].op)
    /\ is_temp(f[i].res)
    /\ ~(f[i].op = "ASSIGN" /\ f[i].res.kind = "var")
    /\ ~temp_is_used_after(f, i, f[i].res.v)

dce_visit(st, i) ==
    IF dce_marks(st.func, i)
    THEN [func |-> [st.func EXCEPT ![i].dead = TRUE], count |-> st.count + 1]
    ELSE st

RECURSIVE dce_loop(_, _, _)
dce_loop(st, lo, hi) ==
    IF lo > hi THEN st
    ELSE IF lo = hi THEN dce_visit(st, lo)
    ELSE LET mid == (lo + hi) \div 2
             s1 == dce_loop(st, lo, mid)
         IN  IF s1.count >= 0 THEN dce_loop(s1, mid + 1, hi) ELSE s1

\* a dead code elimination that unlinks what it finds dead instead of marking it
opt_dead_code_elimination_unlinking(f) ==
    LET r == dce_loop([func |-> f, count |-> 0], 1, Len(f))
    IN  [func |-> SelectSeq(r.func, LAMBDA x : ~x.dead), count |-> r.count]

opt_dead_code_elimination(f) == dce_loop([func |-> f, count |-> 0], 1, Len(f))

(***************************************************************************)
(* SWEEP                                                                   *)
(***************************************************************************)
IsLive(instr) == ~instr.dead

CountDead(f) == Cardinality({i \in 1 .. Len(f) : f[i].dead})

\* a sweep that counts the dead nodes and leaves them linked
opt_sweep_dead_counting(f) == [func |-> f, count |-> CountDead(f)]

\* The TACFunction tac_func_append has built from the instructions of f: node
\* i is the i-th instruction appended, 0 is NULL, freed holds the nodes
\* handed to free()
tac_func_append(f) ==
    [first |-> IF Len(f) = 0 THEN 0 ELSE 1,
     last |-> Len(f),
     next |-> [i \in 1 .. Len(f) |-> IF i = Len(f) THEN 0 ELSE i + 1],
     prev |-> [i \in 1 .. Len(f) |-> i - 1],
     instr_count |-> Len(f),
     freed |-> {}]

\* an unlink that repairs the next pointers and first only
sweep_unlink_forward(l, i) ==
    [l EXCEPT !.next = IF l.prev[i] # 0 THEN [@ EXCEPT ![l.prev[i]] = l.next[i]] ELSE @,
              !.first = IF l.prev[i] # 0 THEN @ ELSE l.next[i],
              !.instr_count = @ - 1,
              !.freed = @ \cup {i}]

\* the body of `if (instr->is_dead)': unlink node i, instr_count--, free
sweep_unlink(l, i) ==
    [l EXCEPT !.next = IF l.prev[i] # 0 THEN [@ EXCEPT ![l.prev[i]] = l.next[i]] ELSE @,
              !.first = IF l.prev[i] # 0 THEN @ ELSE l.next[i],
              !.prev = IF l.next[i] # 0 THEN [@ EXCEPT ![l.next[i]] = l.prev[i]] ELSE @,
              !.last = IF l.next[i] # 0 THEN @ ELSE l.prev[i],
              !.instr_count = @ - 1,
              !.freed = @ \cup {i}]

\* one round of the while loop: st = [list, instr, count]; next is read
\* before the node is freed
sweep_step(f, st) ==
    IF st.instr = 0 THEN st
    ELSE IF f[st.instr].dead
    THEN [list |-> sweep_unlink(st.list, st.instr), instr |-> st.list.next[st.instr],
          count |-> st.count + 1]
    ELSE [st EXCEPT !.instr = st.list.next[st.instr]]

\* 2^k rounds
RECURSIVE sweep_steps(_, _, _)
sweep_steps(f, st, k) ==
    IF k = 0 THEN sweep_step(f, st)
    ELSE LET half == sweep_steps(f, st, k - 1)
         IN  IF half.instr # 0 THEN sweep_steps(f, half, k - 1) ELSE half

\* the least k with 2^k > n
RECURSIVE Doublings(_)
Doublings(n) == IF n < 1 THEN 0 ELSE 1 + Doublings(n \div 2)

\* instr = func->first; while (instr) { ... }
sweep_walk(f) ==
    sweep_steps(f, [list |-> tac_func_append(f), instr |-> IF Len(f) = 0 THEN 0 ELSE 1,
                    count |-> 0], Doublings(Len(f)))

\* the nodes met from node p along the pointers ptrs: st = [p, out]
chase_step(ptrs, st) ==
    IF st.p = 0 THEN st ELSE [p |-> ptrs[st.p], out |-> Append(st.out, st.p)]

RECURSIVE chase_steps(_, _, _)
chase_steps(ptrs, st, k) ==
    IF k = 0 THEN chase_step(ptrs, st)
    ELSE LET half == chase_steps(ptrs, st, k - 1)
         IN  IF half.p # 0 THEN chase_steps(ptrs, half, k - 1) ELSE half

\* for (instr = func->first; instr; instr = instr->next): the nodes in order
nodes_forward(l) ==
    chase_steps(l.next, [p |-> l.first, out |-> << >>], Doublings(Len(l.next))).out

\* for (instr = func->last; instr; instr = instr->prev)
nodes_backward(l) ==
    chase_steps(l.prev, [p |-> l.last, out |-> << >>], Doublings(Len(l.prev))).out

\* the instructions of the list l in list order
instrs_of(f, nodes) == [k \in 1 .. Len(nodes) |-> f[nodes[k]]]

swept(f, st) == [func |-> instrs_of(f, nodes_forward(st.list)), count |-> st.count]

\* opt_sweep_dead: the list without the unlinked nodes, and the return value
opt_sweep_dead(f) == swept(f, sweep_walk(f))

(***************************************************************************)
(* CODE GENERATOR: the lowering of a Call (src/src/codegen/ir_codegen.c)   *)
(***************************************************************************)
params_size == 64      \* TACInstr *params[64]

\* the non-dead Params before instruction i, in list order
params_before(f, i) ==
    SelectSeq(SubSeq(f, 1, i - 1), LAMBDA p : ~p.dead /\ p.op = "PARAM")

\* nargs of a Call: arg2 when it is an integer, else 0
call_nargs(instr) == IF instr.a2.kind = "int" THEN instr.a2.v ELSE 0

\* the number of Params the reverse walk from the Call finds: it stops at the
\* head of the list or when found = nargs
call_found(f, i) ==
    LET n == Len(params_before(f, i))
    IN  IF call_nargs(f[i]) < n THEN call_nargs(f[i]) ELSE n

\* the walk stores Param number params_size + 1 past the end of params[]
call_overflows(f, i) == call_found(f, i) > params_size

\* the arguments written for the Call at i: the Params found by the reverse
\* walk, "Emit in reverse order (first param first)", as the ids of the Params
call_args(f, i) ==
    LET ps == params_before(f, i)
    IN  [k \in 1 .. call_found(f, i) |-> ps[Len(ps) - call_found(f, i) + k].id]

\* what a store past the end of params[] can lead to: the call is written as if
\* the array were large enough, the arguments past the array are lost, or no
\* argument is written
UbOutcomes == {"intact", "truncated", "none"}

\* emit_instruction for TAC_CALL: nothing for a dead instruction
emit_call(f, i, ub) ==
    LET args == call_args(f, i)
    IN  IF ~call_overflows(f, i) \/ ub = "intact" THEN args
        ELSE IF ub = "truncated" THEN SubSeq(args, Len(args) - params_size + 1, Len(args))
        ELSE << >>

(***************************************************************************)
(* THE COMPILED PROGRAM: the C statement emit_instruction writes for every *)
(* instruction of main_func, run by the rules of C                         *)
(***************************************************************************)
ExecOps == {"LABEL", "GOTO", "IF_GOTO", "IF_FALSE_GOTO", "LOAD_INT", "ASSIGN", "DECL",
            "ADD", "SUB", "GT", "GTE", "DISPLAY", "SCOPE_BEGIN", "SCOPE_END"}

\* the place of "L<id>:;" in f, 0 when f has no such label
label_index(f, label_id) ==
    LET S == {i \in 1 .. Len(f) : f[i].op = "LABEL" /\ f[i].res.v = label_id /\ ~f[i].dead}
    IN  IF S = {} THEN 0 ELSE FirstOf(S)

\* an operand has a value: a constant, or a temp or variable already assigned
has_value(e, op) == op.kind \in {"int", "bool"} \/ op \in DOMAIN e

value_of(e, op) == IF op.kind \in {"int", "bool"} THEN op.v ELSE e[op]

assign_to(e, op, val) == [k \in DOMAIN e \cup {op} |-> IF k = op THEN val ELSE e[k]]

\* the operands the statement of instr reads
reads_of(instr) ==
    CASE instr.op \in {"IF_GOTO", "IF_FALSE_GOTO", "LOAD_INT", "LOAD_BOOL", "ASSIGN",
                        "DISPLAY"} -> {instr.a1}
      [] instr.op \in {"ADD", "SUB", "MUL", "DIV", "MOD", "GT", "GTE", "LT", "LTE", "EQ", "NEQ"} ->
           {instr.a1, instr.a2}
      [] OTHER -> {}

\* the value the statement of instr assigns to its result
result_of(e, instr) ==
    CASE instr.op \in {"LOAD_INT", "LOAD_BOOL", "ASSIGN"} -> value_of(e, instr.a1)
      [] instr.op = "DECL" -> 0
      [] instr.op = "MUL" -> value_of(e, instr.a1) * value_of(e, instr.a2)
      [] instr.op = "DIV" -> CDiv(value_of(e, instr.a1), value_of(e, instr.a2))
      [] instr.op = "MOD" -> CMod(value_of(e, instr.a1), value_of(e, instr.a2))
      [] instr.op = "LT" -> IF value_of(e, instr.a1) < value_of(e, instr.a2) THEN 1 ELSE 0
      [] instr.op = "LTE" -> IF value_of(e, instr.a1) <= value_of(e, instr.a2) THEN 1 ELSE 0
      [] instr.op = "EQ" -> IF value_of(e, instr.a1) = value_of(e, instr.a2) THEN 1 ELSE 0
      [] instr.op = "NEQ" -> IF value_of(e, instr.a1) # value_of(e, instr.a2) THEN 1 ELSE 0
      [] instr.op = "ADD" -> value_of(e, instr.a1) + value_of(e, instr.a2)
      [] instr.op = "SUB" -> value_of(e, instr.a1) - value_of(e, instr.a2)
      [] instr.op = "GT" -> IF value_of(e, instr.a1) > value_of(e, instr.a2) THEN 1 ELSE 0
      [] instr.op = "GTE" -> IF value_of(e, instr.a1) >= value_of(e, instr.a2) THEN 1 ELSE 0

\* the statement of instr jumps
jumps(e, instr) ==
    \/ instr.op = "GOTO"
    \/ instr.op = "IF_GOTO" /\ value_of(e, instr.a1) # 0
    \/ instr.op = "IF_FALSE_GOTO" /\ value_of(e, instr.a1) = 0

\* A whole run of the compiled main function.  The process is the record
\* [ip, env, output, status]: "running", "exited" (the end of main reached),
\* "SIGFPE" (killed by an integer division by zero), "stuck" (a statement
\* the rules above give no meaning: a jump to a label never emitted, a read
\* of a temp never assigned).
RunOps == ExecOps \cup {"LOAD_BOOL", "MUL", "DIV", "MOD", "LT", "LTE", "EQ", "NEQ"}

AssignOps == RunOps \ {"LABEL", "GOTO", "IF_GOTO", "IF_FALSE_GOTO", "DISPLAY",
                       "SCOPE_BEGIN", "SCOPE_END"}

\* x / 0 and x % 0 on long long are undefined: the process is killed by
\* SIGFPE where the division instruction traps and goes on with 0 where it
\* does not
DivOutcomes == {"SIGFPE", "zero"}

process_start == [ip |-> 1, env |-> << >>, output |-> << >>, status |-> "running"]

\* the statement of instr, which reads only operands that have a value
exec_instr(f, st, instr, ub) ==
    IF instr.op \in {"DIV", "MOD"} /\ value_of(st.env, instr.a2) = 0
    THEN IF ub = "SIGFPE" THEN [st EXCEPT !.status = "SIGFPE"]
         ELSE [st EXCEPT !.ip = @ + 1, !.env = assign_to(@, instr.res, 0)]
    ELSE IF jumps(st.env, instr)
    THEN IF label_index(f, instr.res.v) = 0 THEN [st EXCEPT !.status = "stuck"]
         ELSE [st EXCEPT !.ip = label_index(f, instr.res.v)]
    ELSE [st EXCEPT !.ip = @ + 1,
                    !.env = IF instr.op \in AssignOps
                            THEN assign_to(@, instr.res, result_of(st.env, instr)) ELSE @,
                    !.output = IF instr.op = "DISPLAY"
                               THEN Append(@, value_of(st.env, instr.a1)) ELSE @]

exec_step(f, st, ub) ==
    IF st.status # "running" THEN st
    ELSE IF st.ip > Len(f) THEN [st EXCEPT !.status = "exited"]
    ELSE IF f[st.ip].dead THEN [st EXCEPT !.ip = @ + 1]
    ELSE IF f[st.ip].op \notin RunOps \/ \E op \in reads_of(f[st.ip]) : ~has_value(st.env, op)
    THEN [st EXCEPT !.status = "stuck"]
    ELSE exec_instr(f, st, f[st.ip], ub)

\* 2^k steps
RECURSIVE exec_steps(_, _, _, _)
exec_steps(f, st, k, ub) ==
    IF k = 0 THEN exec_step(f, st, ub)
    ELSE LET half == exec_steps(f, st, k - 1, ub)
         IN  IF half.status = "running" THEN exec_steps(f, half, k - 1, ub) ELSE half

MaxRun == 7           \* a run is followed for 2^MaxRun statements

\* what a run shows: the values displayed, the final values of the named
\* variables, and how it ended
observed(st) ==
    [output |-> st.output, status |-> st.status,
     vars |-> [k \in {k \in DOMAIN st.env : k.kind = "var"} |-> st.env[k]]]

run(f, ub) == observed(exec_steps(f, process_start, MaxRun, ub))

(***************************************************************************)
(* OPTIONS and DRIVER                                                      *)
(***************************************************************************)
opt_default_options(lvl) ==
    [constant_folding |-> lvl >= 1,
     constant_propagation |-> lvl >= 2,
     dead_code_elimination |-> lvl >= 1,
     algebraic_simplification |-> lvl >= 2,
     strength_reduction |-> lvl >= 2,
     redundant_load_elimination |-> lvl >= 2]

opts == opt_default_options(level)

max_iterations == 10

func == funcs[fidx]

(***************************************************************************)
(* Symbol table (src/src/semantic/symbol_table.c)                          *)
(*                                                                         *)
(* The table is a record [scopes, scope_depth, error_count,                *)
(* warning_count]: scopes is the parent chain from global_scope (first)    *)
(* to current_scope (last).  A scope's symbols are its list from the head  *)
(* (the symbol declared last) on.  The field `entered' of a scope is not   *)
(* a field of Scope: it records which function created the scope.          *)
(***************************************************************************)
symbol_create(name, kind, type, scope_level) ==
    [name |-> name, kind |-> kind, type |-> type, scope_level |-> scope_level,
     is_initialized |-> FALSE, params |-> << >>, return_type |-> "TYPE_NOTHING"]

scope_create(lvl, entered) ==
    [level |-> lvl, symbols |-> << >>, is_function_scope |-> FALSE,
     is_loop_scope |-> FALSE, is_secure_zone |-> FALSE,
     expected_return |-> "TYPE_NOTHING", entered |-> entered]

symtab_create ==
    [scopes |-> << scope_create(0, "global") >>, scope_depth |-> 0,
     error_count |-> 0, warning_count |-> 0]

current_scope(table) == table.scopes[Len(table.scopes)]

\* the new scope of symtab_enter_scope, given its parent
scope_inherit(parent, lvl, entered) ==
    [scope_create(lvl, entered) EXCEPT
        !.is_loop_scope = parent.is_loop_scope,
        !.is_secure_zone = parent.is_secure_zone,
        !.expected_return =
            IF parent.is_function_scope \/ parent.expected_return # "TYPE_NOTHING"
            THEN parent.expected_return ELSE @]

symtab_push(table, scope) ==
    [table EXCEPT !.scope_depth = @ + 1, !.scopes = Append(@, scope)]

symtab_enter_scope(table) ==
    symtab_push(table, scope_inherit(current_scope(table), table.scope_depth + 1, "plain"))

\* the mutation of symtab_enter_function_scope without "Reset loop context"
symtab_enter_function_scope_inheriting(table, return_type) ==
    symtab_push(table,
        [scope_inherit(current_scope(table), table.scope_depth + 1, "function") EXCEPT
            !.is_function_scope = TRUE, !.expected_return = return_type])

symtab_enter_function_scope(table, return_type) ==
    symtab_push(table,
        [scope_inherit(current_scope(table), table.scope_depth + 1, "function") EXCEPT
            !.is_function_scope = TRUE, !.expected_return = return_type,
            !.is_loop_scope = FALSE])

symtab_enter_loop_scope(table) ==
    symtab_push(table,
        [scope_inherit(current_scope(table), table.scope_depth + 1, "loop") EXCEPT
            !.is_loop_scope = TRUE])

symtab_enter_secure_scope(table) ==
    symtab_push(table,
        [scope_inherit(current_scope(table), table.scope_depth + 1, "secure") EXCEPT
            !.is_secure_zone = TRUE])

\* the mutation of symtab_exit_scope that counts the level down before it
\* tests for the global scope
symtab_exit_scope_counting(table) ==
    [table EXCEPT !.scope_depth = @ - 1,
                  !.scopes = IF Len(@) = 1 THEN @ ELSE SubSeq(@, 1, Len(@) - 1)]

\* leaving the global scope is refused with a warning on stderr
symtab_exit_scope(table) ==
    IF Len(table.scopes) = 1 THEN table
    ELSE [table EXCEPT !.scope_depth = @ - 1,
                       !.scopes = SubSeq(@, 1, Len(@) - 1)]

symtab_in_loop(table) == current_scope(table).is_loop_scope

symtab_in_function(table) ==
    \E i \in DOMAIN table.scopes : table.scopes[i].is_function_scope

symtab_in_secure_zone(table) == current_scope(table).is_secure_zone

\* the function scopes of the chain
FunctionScopes(table) == {i \in DOMAIN table.scopes : table.scopes[i].is_function_scope}

symtab_get_return_type(table) ==
    IF FunctionScopes(table) = {} THEN "TYPE_NOTHING"
    ELSE table.scopes[CHOOSE i \in FunctionScopes(table) :
                          \A j \in FunctionScopes(table) : j <= i].expected_return

\* NULL
no_symbol == symbol_create(0, "NULL", "TYPE_UNKNOWN", 0)

\* the walk over a scope's list from symbol k on: the position of the first
\* symbol with this name, 0 when the end is reached
RECURSIVE symbol_walk(_, _, _)
symbol_walk(symbols, k, name) ==
    IF k > Len(symbols) THEN 0
    ELSE IF symbols[k].name = name THEN k
    ELSE symbol_walk(symbols, k + 1, name)

symbol_find(symbols, name) == symbol_walk(symbols, 1, name)

symtab_lookup_current_scope(table, name) ==
    IF symbol_find(current_scope(table).symbols, name) = 0 THEN no_symbol
    ELSE current_scope(table).symbols[symbol_find(current_scope(table).symbols, name)]

\* the scopes of the chain that hold the name
ScopesWith(table, name) ==
    {i \in DOMAIN table.scopes : symbol_find(table.scopes[i].symbols, name) # 0}

\* the mutation of symtab_lookup that walks from the global scope down
symtab_lookup_outermost(table, name) ==
    IF ScopesWith(table, name) = {} THEN no_symbol
    ELSE LET i == CHOOSE i \in ScopesWith(table, name) :
                      \A j \in ScopesWith(table, name) : i <= j
         IN  table.scopes[i].symbols[symbol_find(table.scopes[i].symbols, name)]

\* the walk over the chain from scope i toward the global scope: the first
\* scope that holds the name, 0 when scope->parent is NULL
RECURSIVE scope_walk(_, _, _)
scope_walk(table, i, name) ==
    IF i = 0 THEN 0
    ELSE IF symbol_find(table.scopes[i].symbols, name) # 0 THEN i
    ELSE scope_walk(table, i - 1, name)

\* the symbol of scope i with this name, NULL for i = 0
symbol_in(table, i, name) ==
    IF i = 0 THEN no_symbol
    ELSE table.scopes[i].symbols[symbol_find(table.scopes[i].symbols, name)]

symtab_lookup(table, name) ==
    symbol_in(table, scope_walk(table, Len(table.scopes), name), name)

symtab_lookup_function(table, name) ==
    IF symtab_lookup(table, name).kind = "SYMBOL_FUNCTION"
    THEN symtab_lookup(table, name) ELSE no_symbol

\* sym->is_initialized = true for the symbol of scope i with this name
mark_in(table, i, name) ==
    IF i = 0 THEN table
    ELSE [table EXCEPT
            !.scopes[i].symbols[symbol_find(table.scopes[i].symbols, name)].is_initialized
                = TRUE]

\* sym->is_initialized = true for the symbol symtab_lookup returned
symtab_mark_initialized(table, name) ==
    mark_in(table, scope_walk(table, Len(table.scopes), name), name)

\* a declaration: [error, table], error being the returned string being non-NULL
symtab_add(table, sym) ==
    [error |-> FALSE,
     table |-> [table EXCEPT !.scopes[Len(table.scopes)].symbols = << sym >> \o @]]

symtab_reject(table) == [error |-> TRUE, table |-> table]

\* the mutation of symtab_declare_variable without the redeclaration check
symtab_declare_variable_unchecked(table, name, type, is_const) ==
    symtab_add(table, symbol_create(name,
                                    IF is_const THEN "SYMBOL_CONSTANT" ELSE "SYMBOL_VARIABLE",
                                    type, table.scope_depth))

symtab_declare_variable(table, name, type, is_const) ==
    IF symtab_lookup_current_scope(table, name) # no_symbol THEN symtab_reject(table)
    ELSE symtab_add(table, symbol_create(name,
                                    IF is_const THEN "SYMBOL_CONSTANT" ELSE "SYMBOL_VARIABLE",
                                    type, table.scope_depth))

symtab_declare_function(table, name, params, return_type) ==
    IF symtab_lookup_current_scope(table, name) # no_symbol THEN symtab_reject(table)
    ELSE symtab_add(table,
            [symbol_create(name, "SYMBOL_FUNCTION", "TYPE_FUNCTION", table.scope_depth)
                EXCEPT !.params = params, !.return_type = return_type,
                       !.is_initialized = TRUE])

symtab_declare_parameter(table, name, type) ==
    IF symtab_lookup_current_scope(table, name) # no_symbol THEN symtab_reject(table)
    ELSE symtab_add(table,
            [symbol_create(name, "SYMBOL_PARAMETER", type, table.scope_depth)
                EXCEPT !.is_initialized = TRUE])

symtab_error(table) == [table EXCEPT !.error_count = @ + 1]

symtab_warning(table) == [table EXCEPT !.warning_count = @ + 1]

(***************************************************************************)
(* Semantic analyzer (src/src/semantic/semantic.c)                         *)
(*                                                                         *)
(* Every symtab_error of the analyzer is followed by ctx->had_error =      *)
(* true, so the analysis operators thread the table alone and the actions  *)
(* set had_error when error_count grew.  An expression analysis is the     *)
(* record [t, table]: the DataType returned and the table after it.        *)
(***************************************************************************)
\* the mutation of types_compatible that takes a text for any type
types_compatible_with_text(target, source) ==
    \/ target = source
    \/ "TYPE_TEXT" \in {target, source}

types_compatible(target, source) ==
    \/ target = source
    \/ target \in {"TYPE_NUMBER", "TYPE_DECIMAL"} /\ source \in {"TYPE_NUMBER", "TYPE_DECIMAL"}
    \/ target = "TYPE_UNKNOWN" \/ source = "TYPE_UNKNOWN"

type_is_numeric(type) == type \in {"TYPE_NUMBER", "TYPE_DECIMAL", "TYPE_UNKNOWN"}

type_is_boolean(type) == type \in {"TYPE_FLAG", "TYPE_UNKNOWN"}

get_binary_op_result_type(op, left, right) ==
    IF op \in {"ADD", "SUB", "MUL", "DIV", "POW"}
    THEN IF left = "TYPE_DECIMAL" \/ right = "TYPE_DECIMAL" THEN "TYPE_DECIMAL"
         ELSE "TYPE_NUMBER"
    ELSE IF op = "MOD" THEN "TYPE_NUMBER"
    ELSE IF op \in {"EQ", "NEQ", "LT", "GT", "LTE", "GTE", "BETWEEN", "AND", "OR"}
    THEN "TYPE_FLAG"
    ELSE "TYPE_UNKNOWN"

get_unary_op_result_type(op, operand) ==
    IF op \in {"NEG", "POS"} THEN operand
    ELSE IF op = "NOT" THEN "TYPE_FLAG"
    ELSE "TYPE_UNKNOWN"

\* if (violation) { symtab_error(...); ctx->had_error = true; }
report(table, violation) == IF violation THEN symtab_error(table) ELSE table

\* if (questionable) symtab_warning(...)
warn(table, questionable) == IF questionable THEN symtab_warning(table) ELSE table

typed(t, table) == [t |-> t, table |-> table]

\* AST_IDENTIFIER, sym being what symtab_lookup returned
analyze_identifier(table, sym) ==
    IF sym = no_symbol THEN typed("TYPE_UNKNOWN", symtab_error(table))
    ELSE typed(sym.type,
               warn(table, ~sym.is_initialized /\ sym.kind # "SYMBOL_PARAMETER"))

\* AST_BINARY_OP after both operands were analyzed
analyze_binary_op(op, left_type, right_type, table) ==
    IF op = "ADD" /\ (left_type = "TYPE_TEXT" \/ right_type = "TYPE_TEXT")
    THEN typed("TYPE_TEXT", table)
    ELSE typed(get_binary_op_result_type(op, left_type, right_type),
               IF op \in {"ADD", "SUB", "MUL", "DIV", "MOD", "POW"}
               THEN report(report(table, ~type_is_numeric(left_type)),
                           ~type_is_numeric(right_type))
               ELSE IF op \in {"AND", "OR"}
               THEN report(report(table, ~type_is_boolean(left_type)),
                           ~type_is_boolean(right_type))
               ELSE IF op \in {"LT", "GT", "LTE", "GTE"}
               THEN report(table, ~types_compatible(left_type, right_type))
               ELSE table)

\* AST_UNARY_OP after the operand was analyzed
analyze_unary_op(op, operand_type, table) ==
    typed(get_unary_op_result_type(op, operand_type),
          report(report(table, op \in {"NEG", "POS"} /\ ~type_is_numeric(operand_type)),
                 op = "NOT" /\ ~type_is_boolean(operand_type)))

\* AST_TERNARY_OP after operand, lower and upper were analyzed
analyze_ternary_op(operand_type, lower_type, upper_type, table) ==
    typed("TYPE_FLAG",
          report(report(report(table, ~type_is_numeric(operand_type)),
                        ~type_is_numeric(lower_type)),
                 ~type_is_numeric(upper_type)))

\* AST_INDEX after array and index were analyzed
analyze_index(array_type, index_type, table) ==
    typed(IF array_type = "TYPE_TEXT" THEN "TYPE_TEXT" ELSE "TYPE_UNKNOWN",
          report(report(table, array_type \notin {"TYPE_LIST", "TYPE_TEXT", "TYPE_UNKNOWN"}),
                 ~type_is_numeric(index_type)))

\* AST_FUNC_CALL: argument i after it was analyzed
analyze_argument(fn, i, arg) ==
    report(arg.table, i <= Len(fn.params)
                      /\ ~types_compatible(fn.params[i].data_type, arg.t))

RECURSIVE analyze_expression(_, _)
RECURSIVE analyze_arguments(_, _, _, _)
RECURSIVE analyze_elements(_, _, _)

\* AST_FUNC_CALL: the loop over the arguments from argument i on
analyze_arguments(table, fn, args, i) ==
    IF i > Len(args) THEN table
    ELSE analyze_arguments(analyze_argument(fn, i, analyze_expression(table, args[i])),
                           fn, args, i + 1)

\* AST_LIST: the loop over the elements from element i on
analyze_elements(table, elements, i) ==
    IF i > Len(elements) THEN table
    ELSE analyze_elements(analyze_expression(table, elements[i]).table, elements, i + 1)

\* the second operand of a node, analyzed after the first
second_of(node, first) == analyze_expression(first.table, node.kids[2])

\* the third operand of a node, analyzed after the second
third_of(node, second) == analyze_expression(second.table, node.kids[3])

binary_of(node, left, right) == analyze_binary_op(node.op, left.t, right.t, right.table)

ternary_of(operand, lower, upper) ==
    analyze_ternary_op(operand.t, lower.t, upper.t, upper.table)

ternary_from(node, operand, lower) == ternary_of(operand, lower, third_of(node, lower))

index_of(array, index) == analyze_index(array.t, index.t, index.table)

unary_of(node, operand) == analyze_unary_op(node.op, operand.t, operand.table)

\* AST_FUNC_CALL, func being what symtab_lookup_function returned
analyze_func_call(table, fn, args) ==
    IF fn = no_symbol THEN typed("TYPE_UNKNOWN", symtab_error(table))
    ELSE typed(fn.return_type,
               analyze_arguments(report(table, Len(fn.params) # Len(args)), fn, args, 1))

analyze_expression(table, node) ==
    CASE node.type = "AST_LITERAL_INT" -> typed("TYPE_NUMBER", table)
      [] node.type = "AST_LITERAL_FLOAT" -> typed("TYPE_DECIMAL", table)
      [] node.type = "AST_LITERAL_STRING" -> typed("TYPE_TEXT", table)
      [] node.type = "AST_LITERAL_BOOL" -> typed("TYPE_FLAG", table)
      [] node.type = "AST_IDENTIFIER" ->
           analyze_identifier(table, symtab_lookup(table, node.name))
      [] node.type = "AST_BINARY_OP" ->
           (LET left == analyze_expression(table, node.kids[1])
            IN  binary_of(node, left, second_of(node, left)))
      [] node.type = "AST_UNARY_OP" ->
           unary_of(node, analyze_expression(table, node.kids[1]))
      [] node.type = "AST_TERNARY_OP" ->
           (LET operand == analyze_expression(table, node.kids[1])
            IN  ternary_from(node, operand, second_of(node, operand)))
      [] node.type = "AST_FUNC_CALL" ->
           analyze_func_call(table, symtab_lookup_function(table, node.name), node.kids)
      [] node.type = "AST_INDEX" ->
           (LET array == analyze_expression(table, node.kids[1])
            IN  index_of(array, second_of(node, array)))
      [] node.type = "AST_LIST" -> typed("TYPE_LIST", analyze_elements(table, node.kids, 1))
      [] OTHER -> typed("TYPE_UNKNOWN", table)

\* The analysis of a statement is the record [table, next]: the table
\* after the statement's own checks and scope entry, and what analyze_statement
\* goes on with before it returns: the bodies handed to analyze_node and the
\* scope changes between and after them.
enter_scope_step == ast_node("symtab_enter_scope", 0, 0, "", << >>)
exit_scope_step == ast_node("symtab_exit_scope", 0, 0, "", << >>)

analyzed(table, next) == [table |-> table, next |-> next]

\* error = symtab_declare_...(...); if (error) symtab_error(...)
declared(decl) == report(decl.table, decl.error)

\* AST_VAR_DECL after the declaration: the initializer
analyze_initializer(table, node, init) ==
    symtab_mark_initialized(report(init.table, ~types_compatible(node.data_type, init.t)),
                            node.name)

analyze_var_decl(table, node) ==
    IF node.kids[1] = ast_null THEN table
    ELSE analyze_initializer(table, node, analyze_expression(table, node.kids[1]))

RECURSIVE declare_parameters(_, _, _)
\* AST_FUNC_DECL: the loop over the parameters from parameter i on
declare_parameters(table, params, i) ==
    IF i > Len(params) THEN table
    ELSE declare_parameters(
             declared(symtab_declare_parameter(table, params[i].name, params[i].data_type)),
             params, i + 1)

\* the parameters of a function declaration
params_of(node) == SubSeq(node.kids, 2, Len(node.kids))

\* AST_ASSIGN to an identifier, sym being what symtab_lookup returned
analyze_assign_value(table, sym, value) ==
    symtab_mark_initialized(report(value.table, ~types_compatible(sym.type, value.t)),
                            sym.name)

analyze_assign(table, node, sym) ==
    IF sym = no_symbol THEN symtab_error(table)
    ELSE IF sym.kind = "SYMBOL_CONSTANT" THEN symtab_error(table)
    ELSE IF sym.kind = "SYMBOL_FUNCTION" THEN symtab_error(table)
    ELSE analyze_assign_value(table, sym, analyze_expression(table, node.kids[1]))

\* the condition of AST_IF and AST_WHILE after it was analyzed
analyze_condition(cond) ==
    warn(cond.table, cond.t # "TYPE_FLAG" /\ ~type_is_numeric(cond.t)
                     /\ cond.t # "TYPE_UNKNOWN")

\* the count of AST_REPEAT after it was analyzed
analyze_count(count) == report(count.table, ~type_is_numeric(count.t))

\* AST_FOR_EACH after the iterable was analyzed and the loop scope entered
declare_iterator(table, node, decl) ==
    IF decl.error THEN symtab_error(decl.table)
    ELSE symtab_mark_initialized(decl.table, node.name)

analyze_for_each(node, iterable) ==
    LET table == symtab_enter_loop_scope(
                     report(iterable.table,
                            iterable.t \notin {"TYPE_LIST", "TYPE_TEXT", "TYPE_UNKNOWN"}))
    IN  declare_iterator(table, node,
            symtab_declare_variable(table, node.name,
                IF iterable.t = "TYPE_TEXT" THEN "TYPE_TEXT" ELSE "TYPE_UNKNOWN", FALSE))

\* AST_RETURN inside a function, value being the analyzed value
analyze_return_value(expected, value) ==
    report(value.table, expected = "TYPE_NOTHING" \/ ~types_compatible(expected, value.t))

analyze_return(table, node) ==
    IF ~symtab_in_function(table) THEN symtab_error(table)
    ELSE IF node.kids[1] # ast_null
    THEN analyze_return_value(symtab_get_return_type(table),
                              analyze_expression(table, node.kids[1]))
    ELSE report(table, symtab_get_return_type(table) \notin {"TYPE_NOTHING", "TYPE_UNKNOWN"})

\* the target of AST_ASK and AST_READ, sym being what symtab_lookup returned
analyze_target(table, target_var, sym) ==
    IF target_var = 0 THEN table
    ELSE IF sym = no_symbol THEN symtab_error(table)
    ELSE IF sym.kind = "SYMBOL_CONSTANT" THEN symtab_error(table)
    ELSE symtab_mark_initialized(table, target_var)

analyze_statement(table, node) ==
    CASE node.type = "AST_VAR_DECL" ->
           analyzed(analyze_var_decl(
                        declared(symtab_declare_variable(table, node.name, node.data_type,
                                                         node.is_const)),
                        node),
                    << >>)
      [] node.type = "AST_FUNC_DECL" ->
           analyzed(declare_parameters(
                        symtab_enter_function_scope(
                            declared(symtab_declare_function(table, node.name, params_of(node),
                                                             node.data_type)),
                            node.data_type),
                        params_of(node), 1),
                    << node.kids[1], exit_scope_step >>)
      [] node.type = "AST_ASSIGN" ->
           IF node.name # 0
           THEN analyzed(analyze_assign(table, node, symtab_lookup(table, node.name)), << >>)
           ELSE analyzed(analyze_expression(analyze_expression(table, node.kids[2]).table,
                                            node.kids[1]).table,
                         << >>)
      [] node.type = "AST_IF" ->
           analyzed(symtab_enter_scope(
                        analyze_condition(analyze_expression(table, node.kids[1]))),
                    << node.kids[2], exit_scope_step >>
                        \o (IF node.kids[3] = ast_null THEN << >>
                            ELSE << enter_scope_step, node.kids[3], exit_scope_step >>))
      [] node.type = "AST_WHILE" ->
           analyzed(symtab_enter_loop_scope(
                        analyze_condition(analyze_expression(table, node.kids[1]))),
                    << node.kids[2], exit_scope_step >>)
      [] node.type = "AST_REPEAT" ->
           analyzed(symtab_enter_loop_scope(
                        analyze_count(analyze_expression(table, node.kids[1]))),
                    << node.kids[2], exit_scope_step >>)
      [] node.type = "AST_FOR_EACH" ->
           analyzed(analyze_for_each(node, analyze_expression(table, node.kids[1])),
                    << node.kids[2], exit_scope_step >>)
      [] node.type = "AST_RETURN" -> analyzed(analyze_return(table, node), << >>)
      [] node.type \in {"AST_BREAK", "AST_CONTINUE"} ->
           analyzed(report(table, ~symtab_in_loop(table)), << >>)
      [] node.type \in {"AST_DISPLAY", "AST_EXPR_STMT"} ->
           analyzed(analyze_expression(table, node.kids[1]).table, << >>)
      [] node.type = "AST_ASK" ->
           analyzed(analyze_target(analyze_expression(table, node.kids[1]).table, node.name,
                        symtab_lookup(table, node.name)),
                    << >>)
      [] node.type = "AST_READ" ->
           analyzed(analyze_target(table, node.name, symtab_lookup(table, node.name)), << >>)
      [] node.type = "AST_SECURE_ZONE" ->
           analyzed(symtab_enter_secure_scope(table), << node.kids[1], exit_scope_step >>)
      [] OTHER -> analyzed(table, << >>)

\* analyze_node: a program or block hands its statements on, the scope steps
\* are the calls analyze_statement makes around the bodies
analyze_node(table, node) ==
    CASE node.type \in {"AST_PROGRAM", "AST_BLOCK"} -> analyzed(table, node.kids)
      [] node = enter_scope_step -> analyzed(symtab_enter_scope(table), << >>)
      [] node = exit_scope_step -> analyzed(symtab_exit_scope(table), << >>)
      [] OTHER -> analyze_statement(table, node)

\* SemanticResult
semantic_result(table, err) ==
    [success |-> ~err /\ table.error_count = 0, error_count |-> table.error_count,
     warning_count |-> table.warning_count]

no_result == [success |-> FALSE, error_count |-> -1, warning_count |-> -1]

\* no symtab_lookup call was just made
no_lookup == [name |-> 0, sym |-> no_symbol]

(***************************************************************************)
(* TAC functions handed to ir_optimize                                     *)
(***************************************************************************)
MaxChain == 11        \* longest chain of dependent additions

IntVals == {-1, 0, 1, 2, 3, 4}
FloatVals == {tac_operand_float(0, 1), tac_operand_float(1, 2),
              tac_operand_float(1, 1), tac_operand_float(2, 1)}
ConstOperands ==
    {tac_operand_int(n) : n \in IntVals} \cup FloatVals
        \cup {tac_operand_bool(0), tac_operand_bool(1)}

BinaryOps == {"ADD", "SUB", "MUL", "DIV", "MOD", "POW",
              "EQ", "NEQ", "LT", "GT", "LTE", "GTE", "AND", "OR"}

\* what ir_gen_expression emits for a literal: a Load into a fresh temp
Load(id, t, c) == tac_instr_create(id, LoadOpcodeOf(c), tac_operand_temp(t), c, tac_operand_none)
Display(id, a) == tac_instr_create(id, "DISPLAY", tac_operand_none, a, tac_operand_none)
Bin(id, opcode, t, a, b) == tac_instr_create(id, opcode, tac_operand_temp(t), a, b)

\* display x op y
BinProg(opcode, x, y) ==
    << Load(1, 0, x), Load(2, 1, y),
       Bin(3, opcode, 2, tac_operand_temp(0), tac_operand_temp(1)),
       Display(4, tac_operand_temp(2)) >>

\* display c + c + ... + c with n additions, left-associated
ChainProg(n, c) ==
    [i \in 1 .. (2 * n + 2) |->
        IF i = 1 THEN Load(1, 0, tac_operand_int(c))
        ELSE IF i = 2 * n + 2 THEN Display(i, tac_operand_temp(2 * n))
        ELSE IF i % 2 = 0 THEN Load(i, i - 1, tac_operand_int(c))
        ELSE Bin(i, "ADD", i - 1, tac_operand_temp(i - 3), tac_operand_temp(i - 2))]

\* a user function: give back c + e
UserFunc(c, e) ==
    << tac_instr_create(1, "FUNC_BEGIN", tac_operand_func(1), tac_operand_none, tac_operand_none),
       Load(2, 10, tac_operand_int(c)), Load(3, 11, tac_operand_int(e)),
       Bin(4, "ADD", 12, tac_operand_temp(10), tac_operand_temp(11)),
       tac_instr_create(5, "RETURN", tac_operand_none, tac_operand_temp(12), tac_operand_none),
       tac_instr_create(6, "FUNC_END", tac_operand_none, tac_operand_none, tac_operand_none) >>

\* The TAC of  display 0 + (1 + ... + ((n-1) + ((n-1) + g()))) : the operands
\* are evaluated left to right (ir_gen_expression, AST_BINARY_OP), so n loads
\* of the distinct values 0 .. n-1 and one more load of n-1 precede the Call,
\* and the additions that use them follow it
LoadsProg(n) ==
    [i \in 1 .. (2 * n + 4) |->
        IF i <= n THEN Load(i, i - 1, tac_operand_int(i - 1))
        ELSE IF i = n + 1 THEN Load(i, n, tac_operand_int(n - 1))
        ELSE IF i = n + 2
        THEN tac_instr_create(i, "CALL", tac_operand_temp(n + 1),
                              tac_operand_func(1), tac_operand_int(0))
        ELSE IF i <= 2 * n + 3
        THEN Bin(i, "ADD", i - 1, tac_operand_temp(2 * n + 3 - i), tac_operand_temp(i - 2))
        ELSE Display(i, tac_operand_temp(2 * n + 2))]

\* a temp written twice in one basic block, as a counter is:
\* t0 = x; t0 = t0 + 1; t1 = y; display t0; display t1
CounterProg(x, y) ==
    << Load(1, 0, tac_operand_int(x)),
       Bin(2, "ADD", 0, tac_operand_temp(0), tac_operand_int(1)),
       Load(3, 1, tac_operand_int(y)),
       Display(4, tac_operand_temp(0)), Display(5, tac_operand_temp(1)) >>

MaxExponent == 64     \* largest exponent of a Pow

\* bases and exponents of which the power, or its low 64 bits, is an integer
\* of the model: 2^30, and 2^n, (-2)^n, 4^n = 0 (mod 2^64) for n >= 64
Powers == {<<2, 30>>, <<2, MaxExponent>>, <<-2, MaxExponent>>, <<4, MaxExponent>>}

\* few loads, and one load more than the recent table of pass 5 holds
LoadCounts == {1, 2, 3, MAX_RECENT + 1}

Programs ==
    {<< BinProg(o, x, y) >> : o \in BinaryOps, x \in ConstOperands, y \in ConstOperands}
        \cup {<< ChainProg(n, c) >> : n \in 0 .. MaxChain, c \in {0, 1, 3}}
        \cup {<< ChainProg(n, 1), UserFunc(c, 2) >> : n \in 0 .. 1, c \in {0, 2}}
        \cup {<< LoadsProg(n) >> : n \in LoadCounts}
        \cup {<< CounterProg(x, y) >> : x \in {0, 1}, y \in {0, 1}}
        \cup {<< BinProg("POW", tac_operand_int(pw[1]), tac_operand_int(pw[2])) >> : pw \in Powers}

(***************************************************************************)
(* Programs handed to ir_generate.  Variables: a = 1, b = 2, c = 3, n = 4, *)
(* x = 5, xs = 6; functions: f = 1, g = 2, h = 3 (0 is __list_length).     *)
(***************************************************************************)
MaxCount == 3         \* largest initial value of n in a Repeat program
MaxOutput == 6        \* the running program is followed up to this many Displays

Id(k) == ast_create_identifier(k)
Lit(v) == ast_create_literal_int(v)
Call(name, args) == ast_create_func_call(name, args)
Blk(stmts) == ast_create_block(stmts)

CallExprs ==
    { Call(1, << >>),                                       \* f()
      Call(1, << Id(1), Id(2) >>),                          \* f(a, b)
      Call(1, << Lit(1), Lit(2) >>),                        \* f(1, 2)
      Call(1, << Id(1), Call(2, << Id(2) >>) >>),           \* f(a, g(b))
      Call(1, << Call(2, << Id(1) >>), Id(2) >>),           \* f(g(a), b)
      Call(1, << Call(2, << Call(3, << Id(1) >>) >>) >>),   \* f(g(h(a)))
      Call(1, << Call(2, << Id(1) >>), Call(3, << Id(2) >>) >>),   \* f(g(a), h(b))
      Call(1, << Id(1), Call(2, << Id(2), Lit(3) >>), Id(3) >>) }  \* f(a, g(b, 3), c)

\* f(x, ..., x) with n arguments
ManyArgs(n) == Call(1, [i \in 1 .. n |-> Id(5)])

ArgCounts == {3, params_size, params_size + 1}

LoopStmts ==
    { \* while a { if b { break } continue }
      ast_create_while(Id(1), Blk(<< ast_create_if(Id(2), Blk(<< ast_create_break >>), ast_null),
                                     ast_create_continue >>)),
      \* while a { function f { break } }
      ast_create_while(Id(1), Blk(<< ast_create_func_decl(1, Blk(<< ast_create_break >>)) >>)),
      \* repeat 2 times { function g { continue } display 1 }
      ast_create_repeat(Lit(2), Blk(<< ast_create_func_decl(2, Blk(<< ast_create_continue >>)),
                                       ast_create_display(Lit(1)) >>)),
      \* function f { while a { break } return a }
      ast_create_func_decl(1, Blk(<< ast_create_while(Id(1), Blk(<< ast_create_break >>)),
                                     ast_create_return(Id(1)) >>)),
      \* function f { break return }
      ast_create_func_decl(1, Blk(<< ast_create_break, ast_create_return(ast_null) >>)),
      \* for each x in xs { display x if b { continue } }
      ast_create_for_each(5, Id(6),
          Blk(<< ast_create_display(Id(5)),
                 ast_create_if(Id(2), Blk(<< ast_create_continue >>), ast_null) >>)),
      \* if a { display 1 } else { display f(2) }
      ast_create_if(Id(1), Blk(<< ast_create_display(Lit(1)) >>),
                    Blk(<< ast_create_display(Call(1, << Lit(2) >>)) >>)) }

\* the count expressions of a Repeat: the literal v, n, n + 1
RepeatCounts(v) == {Lit(v), Id(4), ast_create_binary_op("ADD", Id(4), Lit(1))}

\* what follows the Display in the body of a Repeat
RepeatTails ==
    { << >>,
      << ast_create_continue >>,
      \* if n > 1 { continue }  n = n
      << ast_create_if(ast_create_binary_op("GT", Id(4), Lit(1)),
                       Blk(<< ast_create_continue >>), ast_null),
         ast_create_assign(4, Id(4)) >>,
      \* n = n - 1
      << ast_create_assign(4, ast_create_binary_op("SUB", Id(4), Lit(1))) >>,
      \* n = n + 1
      << ast_create_assign(4, ast_create_binary_op("ADD", Id(4), Lit(1))) >> }

\* n = v  repeat count times { display 1 tail }
RepeatProg(v, count, tail) ==
    ast_create_program(<< ast_create_var_decl(4, Lit(v)),
                          ast_create_repeat(count, Blk(<< ast_create_display(Lit(1)) >> \o tail)) >>)

\* a = x  display (a o y) * z  display a
ArithProg(o, x, y, z) ==
    ast_create_program(
        << ast_create_var_decl(1, Lit(x)),
           ast_create_display(ast_create_binary_op("MUL",
               ast_create_binary_op(o, Id(1), Lit(y)), Lit(z))),
           ast_create_display(Id(1)) >>)

\* n = v  while n > 0 { if n == y { display n * 2 } else { display n < y }  n = n - 1 }
WhileProg(v, y) ==
    ast_create_program(
        << ast_create_var_decl(4, Lit(v)),
           ast_create_while(ast_create_binary_op("GT", Id(4), Lit(0)),
               Blk(<< ast_create_if(ast_create_binary_op("EQ", Id(4), Lit(y)),
                          Blk(<< ast_create_display(ast_create_binary_op("MUL", Id(4), Lit(2))) >>),
                          Blk(<< ast_create_display(ast_create_binary_op("LT", Id(4), Lit(y))) >>)),
                      ast_create_assign(4, ast_create_binary_op("SUB", Id(4), Lit(1))) >>)) >>)

IntegerPrograms ==
    {ArithProg(o, x, y, z) : o \in {"SUB", "MUL", "DIV", "MOD"}, x \in {1, 2}, y \in 0 .. 2, z \in 0 .. 2}
        \cup {WhileProg(v, y) : v \in 0 .. MaxCount, y \in 1 .. 2}

\* a = 1  display x is between lo and hi
BetweenTerms == {Lit(0), Lit(2), Id(1)}

BetweenProg(x, lo, hi) ==
    ast_create_program(
        << ast_create_var_decl(1, Lit(1)),
           ast_create_display(ast_create_ternary_op("BETWEEN", x, lo, hi)) >>)

\* Nested loops.  A Break is written  display 7  break  and a Continue
\* display 8  continue,  so that the Goto of each can be told in the TAC.
MarkOf(type) == IF type = "AST_BREAK" THEN 7 ELSE 8

Marked(jump) == << ast_create_display(Lit(MarkOf(jump.type))), jump >>

Jumps == {ast_create_break, ast_create_continue}

LoopKinds == {"AST_WHILE", "AST_REPEAT", "AST_FOR_EACH"}

\* while a { body }   repeat 2 times { body }   for each x in xs { body }
Loop(kind, body) ==
    CASE kind = "AST_WHILE" -> ast_create_while(Id(1), Blk(body))
      [] kind = "AST_REPEAT" -> ast_create_repeat(Lit(2), Blk(body))
      [] kind = "AST_FOR_EACH" -> ast_create_for_each(5, Id(6), Blk(body))

\* outer { pre  inner { jump }  post }
NestedProg(outer, inner, pre, jump, post) ==
    ast_create_program(<< Loop(outer, pre \o << Loop(inner, Marked(jump)) >> \o Marked(post)) >>)

NestedLoops ==
    {NestedProg(outer, inner, pre, jump, post) :
        outer \in LoopKinds, inner \in LoopKinds,
        pre \in {<< >>} \cup {Marked(j) : j \in Jumps}, jump \in Jumps, post \in Jumps}

\* display x + y  display x + y  x + y   (the last statement has no effect)
TrailingProg(x, y) ==
    ast_create_program(
        << ast_create_display(ast_create_binary_op("ADD", Lit(x), Lit(y))),
           ast_create_display(ast_create_binary_op("ADD", Lit(x), Lit(y))),
           ast_create_expr_stmt(ast_create_binary_op("ADD", Lit(x), Lit(y))) >>)

\* x + y   (nothing is left of it)
EffectlessProg(x, y) ==
    ast_create_program(<< ast_create_expr_stmt(ast_create_binary_op("ADD", Lit(x), Lit(y))) >>)

\* lists whose temp no later operand names:  [x, y]  as a statement and
\* [x][0] = y
ListProg(x, y) == ast_create_program(<< ast_create_expr_stmt(ast_create_list(<< Lit(x), Lit(y) >>)) >>)

ListSetProg(x, y) ==
    ast_create_program(<< ast_create_index_assign(
                              ast_create_index(ast_create_list(<< Lit(x) >>), Lit(0)), Lit(y)) >>)

\* a list that a later operand names:  xs = [x, y];  display xs[0]
ListUseProg(x, y) ==
    ast_create_program(<< ast_create_assign(6, ast_create_list(<< Lit(x), Lit(y) >>)),
                          ast_create_display(ast_create_index(Id(6), Lit(0))) >>)

ListPrograms ==
    UNION {{ListProg(x, y), ListSetProg(x, y), ListUseProg(x, y)} : x \in {1, 2}, y \in {1, 2}}

Sources ==
    {ast_create_program(<< ast_create_expr_stmt(e) >>) : e \in CallExprs}
        \cup ListPrograms
        \cup {ast_create_program(<< ast_create_display(
                   ast_create_binary_op("POW", Lit(pw[1]), Lit(pw[2]))) >>) : pw \in Powers}
        \cup {TrailingProg(x, y) : x \in 1 .. 2, y \in 1 .. 2}
        \cup NestedLoops
        \cup {EffectlessProg(x, y) : x \in 1 .. 2, y \in 1 .. 2}
        \cup IntegerPrograms
        \cup {BetweenProg(x, lo, hi) : x \in BetweenTerms, lo \in BetweenTerms, hi \in BetweenTerms}
        \cup {ast_create_program(<< ast_create_display(ManyArgs(n)) >>) : n \in ArgCounts}
        \cup {ast_create_program(<< st >>) : st \in LoopStmts}
        \cup {RepeatProg(v, count, tail) :
                 v \in -1 .. MaxCount, count \in UNION {RepeatCounts(w) : w \in -1 .. MaxCount},
                 tail \in RepeatTails}

\* temps of the program an earlier ir_optimize call of the process worked on
MaxStale == 4

\* the table that call left behind: each of its temps with the constant 7
LeftOver == [t \in 1 .. MaxStale |-> [temp_id |-> t - 1, value |-> tac_operand_int(7), valid |-> TRUE]]

Init ==
    /\ \/ ast = ast_null /\ funcs \in Programs /\ pc = "start"
       \/ ast \in Sources /\ funcs = << >> /\ pc = "gen"
    /\ input = funcs
    /\ instr_count = [i \in DOMAIN funcs |-> Len(funcs[i])]
    /\ own = {}
    /\ emitted = {}
    /\ ip = 1
    /\ env = << >>
    /\ output = << >>
    /\ level \in {0, 1, 2}
    /\ fidx = 1
    /\ iter = 0
    /\ changes = 0
    /\ passes_run = 0
    /\ const_table \in {no_consts, LeftOver}
    /\ div_by_zero = FALSE
    /\ last_count = 0
    /\ symtab = symtab_create
    /\ had_error = FALSE
    /\ work = << >>
    /\ sem_result = no_result
    /\ found = no_lookup

\* ir_generate(ast)
IrGenerate ==
    /\ pc = "gen"
    /\ pc' = "start"
    /\ \E r \in {ir_generate(ast)} :
          /\ funcs' = r.funcs
          /\ input' = r.funcs
          /\ instr_count' = [i \in DOMAIN r.funcs |-> Len(r.funcs[i])]
          /\ own' = r.own
    /\ UNCHANGED <<optvars, ast, emitted, runvars, semvars>>

\* ir_optimize up to the first call of optimize_function
IrOptimize ==
    /\ pc = "start"
    /\ pc' = IF level = 0 THEN "done" ELSE "prop"
    /\ UNCHANGED <<funcs, instr_count, optvars, genvars, emitted, runvars, semvars>>

\* one `if (opts->pass) { n = pass(func); changes += n; }' of optimize_function
RunPass(here, enabled, r, next) ==
    /\ pc = here
    /\ pc' = next
    /\ IF enabled
       THEN /\ funcs' = [funcs EXCEPT ![fidx] = r.func]
            /\ changes' = changes + r.count
            /\ last_count' = r.count
       ELSE UNCHANGED <<funcs, changes, last_count>>
    /\ UNCHANGED <<instr_count, level, fidx, iter, passes_run, genvars, emitted, runvars, semvars>>

ConstantPropagation ==
    LET r == opt_constant_propagation_from(const_table, func) IN
    /\ RunPass("prop", opts.constant_propagation, r, "fold")
    /\ const_table' = IF opts.constant_propagation THEN r.table ELSE const_table
    /\ UNCHANGED div_by_zero

ConstantFolding ==
    LET r == opt_constant_folding(func) IN
    /\ RunPass("fold", opts.constant_folding, r, "alg")
    /\ div_by_zero' = (div_by_zero \/ (opts.constant_folding /\ r.trap))
    /\ UNCHANGED const_table

\* an algebraic simplification after which redundant load elimination is next
AlgebraicSimplification_then_rle ==
    /\ RunPass("alg", opts.algebraic_simplification, opt_algebraic_simplification(func), "rle")
    /\ UNCHANGED <<const_table, div_by_zero>>

AlgebraicSimplification ==
    /\ RunPass("alg", opts.algebraic_simplification, opt_algebraic_simplification(func), "str")
    /\ UNCHANGED <<const_table, div_by_zero>>

StrengthReduction ==
    /\ RunPass("str", opts.strength_reduction, opt_strength_reduction(func), "rle")
    /\ UNCHANGED <<const_table, div_by_zero>>

RedundantLoadElimination ==
    /\ RunPass("rle", opts.redundant_load_elimination,
               opt_redundant_load_elimination(func), "dce")
    /\ UNCHANGED <<const_table, div_by_zero>>

DeadCodeElimination ==
    /\ RunPass("dce", opts.dead_code_elimination, opt_dead_code_elimination(func), "iter_end")
    /\ UNCHANGED <<const_table, div_by_zero>>

\* the loop header with iter++ <= max_iterations: one iteration more
IterationEnd_inclusive ==
    /\ pc = "iter_end"
    /\ passes_run' = passes_run + 1
    /\ IF changes = 0
       THEN pc' = "sweep" /\ UNCHANGED <<iter, changes>>
       ELSE /\ iter' = iter + 1
            /\ IF iter + 1 <= max_iterations
               THEN pc' = "prop" /\ changes' = 0
               ELSE pc' = "sweep" /\ UNCHANGED changes
    /\ UNCHANGED <<funcs, instr_count, level, fidx, const_table, div_by_zero, last_count,
                   genvars, emitted, runvars, semvars>>

\* stats->passes_run++; if (changes == 0) break; and the loop header iter++ < max_iterations
IterationEnd ==
    /\ pc = "iter_end"
    /\ passes_run' = passes_run + 1
    /\ IF changes = 0
       THEN pc' = "sweep" /\ UNCHANGED <<iter, changes>>
       ELSE /\ iter' = iter + 1
            /\ IF iter + 1 < max_iterations
               THEN pc' = "prop" /\ changes' = 0
               ELSE pc' = "sweep" /\ UNCHANGED changes
    /\ UNCHANGED <<funcs, instr_count, level, fidx, const_table, div_by_zero, last_count,
                   genvars, emitted, runvars, semvars>>

\* opt_sweep_dead(func), the return of optimize_function and the next function of ir_optimize
Sweep ==
    LET r == opt_sweep_dead(func) IN
    /\ pc = "sweep"
    /\ funcs' = [funcs EXCEPT ![fidx] = r.func]
    /\ instr_count' = [instr_count EXCEPT ![fidx] = instr_count[fidx] - r.count]
    /\ last_count' = r.count
    /\ IF fidx < Len(funcs)
       THEN fidx' = fidx + 1 /\ pc' = "prop" /\ iter' = 0 /\ changes' = 0
       ELSE pc' = "done" /\ UNCHANGED <<fidx, iter, changes>>
    /\ UNCHANGED <<level, passes_run, const_table, div_by_zero, genvars, emitted, runvars, semvars>>

\* the code generator at the Calls: emit_instruction for every live Call of
\* every function
IrCodegen ==
    /\ pc = "done"
    /\ pc' = "emitted"
    /\ \E ub \in UbOutcomes :
         emitted' = {[func |-> k, call |-> funcs[k][i].id, nargs |-> call_nargs(funcs[k][i]),
                      args |-> emit_call(funcs[k], i, ub)] :
                        <<k, i>> \in {<<k, i>> \in UNION {{k} \X DOMAIN funcs[k] : k \in DOMAIN funcs} :
                                          funcs[k][i].op = "CALL" /\ ~funcs[k][i].dead}}
    /\ UNCHANGED <<funcs, instr_count, optvars, genvars, runvars, semvars>>

\* the compiled main_func of the TAC as ir_generate returned it: one statement
ExecInstr ==
    LET main == funcs[1]
        instr == main[ip]
    IN  /\ pc \in {"start", "exec"}
        /\ \A i \in DOMAIN main : main[i].op \in ExecOps
        /\ ip <= Len(main)
        /\ Len(output) < MaxOutput
        /\ pc' = "exec"
        /\ IF instr.dead THEN ip' = ip + 1 /\ UNCHANGED <<env, output>>
           ELSE /\ \A op \in reads_of(instr) : has_value(env, op)
                /\ IF jumps(env, instr)
                   THEN /\ label_index(main, instr.res.v) # 0
                        /\ ip' = label_index(main, instr.res.v)
                   ELSE ip' = ip + 1
                /\ env' = IF instr.op \in {"LOAD_INT", "ASSIGN", "DECL", "ADD", "SUB", "GT", "GTE"}
                          THEN assign_to(env, instr.res, result_of(env, instr))
                          ELSE env
                /\ output' = IF instr.op = "DISPLAY"
                             THEN Append(output, value_of(env, instr.a1))
                             ELSE output
        /\ UNCHANGED <<funcs, instr_count, optvars, genvars, emitted, semvars>>

Next ==
    \/ IrGenerate
    \/ IrOptimize
    \/ ConstantPropagation
    \/ ConstantFolding
    \/ AlgebraicSimplification
    \/ StrengthReduction
    \/ RedundantLoadElimination
    \/ DeadCodeElimination
    \/ IterationEnd
    \/ Sweep
    \/ IrCodegen
    \/ ExecInstr

Spec == Init /\ [][Next]_vars

(***************************************************************************)
(* Programs handed to semantic_analyze.  Names are numbered in one name    *)
(* space, as the symbol table holds variables and functions alike:         *)
(* a = 1, c = 3, xs = 6, u = 7 (never declared), f = 11 (never declared),  *)
(* h = 13.                                                                 *)
(***************************************************************************)
MaxDepth == 3         \* deepest scope nesting of the symbol table calls
MaxSymbols == 3       \* most symbols the symbol table calls declare

Text == ast_create_literal_string(0)
Flag == ast_create_literal_bool(1)
\* 1 - "t": one violation
BadSub == ast_create_binary_op("SUB", Lit(1), Text)
\* true and 1: one violation
BadAnd == ast_create_binary_op("AND", Flag, Lit(1))

\* a: Number;  c: constant Number = 1;  xs: constant List = [1]
Prelude ==
    << ast_create_var_decl_typed(1, "TYPE_NUMBER", ast_null, FALSE),
       ast_create_var_decl_typed(3, "TYPE_NUMBER", Lit(1), TRUE),
       ast_create_var_decl_typed(6, "TYPE_LIST", ast_create_list(<< Lit(1) >>), TRUE) >>

Func(return_type, stmts) == ast_create_func_decl_typed(13, << >>, return_type, Blk(stmts))
While(stmts) == ast_create_while(Flag, Blk(stmts))

\* the places a statement is put in: outside every loop and function,
OutsideAll(s) ==
    { << s >>,
      << ast_create_if(Flag, Blk(<< s >>), ast_null) >>,
      << ast_create_secure_zone(Blk(<< s >>)) >> }

\* in a loop of the main program,
InLoop(s) ==
    { << While(<< s >>) >>,
      << ast_create_repeat(Lit(2), Blk(<< s >>)) >>,
      << ast_create_for_each(5, Id(6), Blk(<< s >>)) >>,
      << While(<< ast_create_if(Flag, Blk(<< s >>), ast_null) >>) >>,
      << While(<< ast_create_if(Flag, Blk(<< >>), Blk(<< s >>)) >>) >>,
      << While(<< ast_create_secure_zone(Blk(<< s >>)) >>) >> }

\* in a function (declared in a loop or not) and in no loop of the function,
InFunction(return_type, s) ==
    { << Func(return_type, << s >>) >>,
      << While(<< Func(return_type, << s >>) >>) >>,
      << While(<< Func(return_type, << ast_create_if(Flag, Blk(<< s >>), ast_null) >>) >>) >>,
      << Func("TYPE_NUMBER", << Func(return_type, << s >>) >>) >> }

\* in a loop of a function
InFunctionLoop(return_type, s) ==
    { << Func(return_type, << While(<< s >>) >>) >>,
      << While(<< Func(return_type, << While(<< s >>) >>) >>) >> }

Contexts(s) ==
    OutsideAll(s) \cup InLoop(s)
        \cup UNION {InFunction(t, s) \cup InFunctionLoop(t, s) : t \in {"TYPE_NOTHING", "TYPE_NUMBER"}}

Statements ==
    { ast_create_break, ast_create_continue,
      ast_create_return(ast_null), ast_create_return(Lit(1)), ast_create_return(Text),
      ast_create_assign(1, Lit(1)), ast_create_assign(1, Text),
      ast_create_assign(1, BadSub), ast_create_assign(1, Id(7)),
      ast_create_assign(3, Lit(2)), ast_create_assign(3, BadSub),
      ast_create_assign(6, ast_create_list(<< >>)),
      ast_create_assign(7, BadSub), ast_create_assign(13, Lit(1)),
      ast_create_index_assign(ast_create_index(Id(6), Lit(0)), Lit(2)),
      ast_create_index_assign(ast_create_index(Id(6), Flag), BadSub),
      ast_create_ask(Text, 3), ast_create_ask(Text, 1), ast_create_ask(BadSub, 7),
      ast_create_read(3), ast_create_read(1), ast_create_read(6),
      ast_create_display(Id(1)), ast_create_display(BadSub),
      ast_create_display(ast_create_binary_op("LT", BadSub, BadAnd)),
      ast_create_display(ast_create_binary_op("ADD", Text, BadAnd)),
      ast_create_display(ast_create_unary_op("NOT", BadSub)),
      ast_create_display(ast_create_ternary_op("BETWEEN", Lit(1), Flag, BadSub)),
      ast_create_display(ast_create_list(<< BadSub, BadAnd >>)),
      ast_create_expr_stmt(Call(11, << BadSub >>)),
      ast_create_expr_stmt(Call(13, << BadSub >>)),
      ast_create_var_decl_typed(1, "TYPE_TEXT", BadSub, FALSE),
      ast_create_var_decl_typed(2, "TYPE_NUMBER", Text, FALSE) }

\* n: Number = 1;  d: Decimal = 2.0;  t: Text = "s";  b: Flag = true
TypedPrelude ==
    << ast_create_var_decl_typed(1, "TYPE_NUMBER", Lit(1), FALSE),
       ast_create_var_decl_typed(8, "TYPE_DECIMAL", ast_create_literal_float(2), FALSE),
       ast_create_var_decl_typed(9, "TYPE_TEXT", Text, FALSE),
       ast_create_var_decl_typed(10, "TYPE_FLAG", Flag, FALSE) >>

TypedOperands == {Lit(1), ast_create_literal_float(2), Text, Flag, Id(1), Id(8), Id(9), Id(10)}

BinaryOperators ==
    {"ADD", "SUB", "MUL", "DIV", "MOD", "POW", "EQ", "NEQ", "LT", "GT", "LTE", "GTE", "AND", "OR"}

\* the declarations, then  display l op r
TypedProg(op, l, r) ==
    ast_create_program(TypedPrelude \o << ast_create_display(ast_create_binary_op(op, l, r)) >>)

TypedSources ==
    {TypedProg(op, l, r) : op \in BinaryOperators, l \in TypedOperands, r \in TypedOperands}

\* for each i in [1, 2] { display i }
ForEachLoop(i) ==
    ast_create_for_each(i, ast_create_list(<< Lit(1), Lit(2) >>),
                        Blk(<< ast_create_display(Id(i)) >>))

IteratorNames == {14, 15}

\* two loops one after the other; a declaration and then a loop; a loop in
\* the body of a loop
IteratorSources ==
    {ast_create_program(<< ForEachLoop(i), ForEachLoop(j) >>) : i \in IteratorNames, j \in IteratorNames}
        \cup {ast_create_program(<< ast_create_var_decl_typed(i, "TYPE_NUMBER", Lit(1), FALSE),
                                     ForEachLoop(j) >>) : i \in IteratorNames, j \in IteratorNames}
        \cup {ast_create_program(<< ast_create_for_each(i, ast_create_list(<< Lit(1) >>),
                                                         Blk(<< ForEachLoop(j) >>)) >>) :
                  i \in IteratorNames, j \in IteratorNames}
        \cup {ast_create_program(<< ast_create_var_decl_typed(i, "TYPE_NUMBER", Lit(1), FALSE),
                                     ast_create_var_decl_typed(j, "TYPE_NUMBER", Lit(2), FALSE) >>) :
                  i \in IteratorNames, j \in IteratorNames}

SemSources ==
    {ast_create_program(Prelude \o c) : c \in UNION {Contexts(s) : s \in Statements}}
        \cup TypedSources
        \cup IteratorSources

(***************************************************************************)
(* The symbol table and the analyzer as a state machine.  pc = "scopes"    *)
(* and pc = "symbols": a client calls the symbol table's functions in any  *)
(* order (scope entries and exits of every kind in the first, declarations *)
(* and plain scopes in the second).  pc = "sem": semantic_analyze works    *)
(* through the program, the statement at the head of `work' next.          *)
(***************************************************************************)
SymNames == {1, 2}
ReturnTypes == {"TYPE_NOTHING", "TYPE_NUMBER"}

SymbolCount(table) ==
    LET RECURSIVE count(_)
        count(i) == IF i = 0 THEN 0 ELSE Len(table.scopes[i].symbols) + count(i - 1)
    IN  count(Len(table.scopes))

SemInit ==
    /\ funcs = << >> /\ input = << >> /\ instr_count = << >>
    /\ own = {} /\ emitted = {}
    /\ ip = 1 /\ env = << >> /\ output = << >>
    /\ level = 0 /\ fidx = 1 /\ iter = 0 /\ changes = 0 /\ passes_run = 0
    /\ const_table = no_consts /\ div_by_zero = FALSE /\ last_count = 0
    /\ symtab = symtab_create
    /\ had_error = FALSE
    /\ sem_result = no_result
    /\ found = no_lookup
    /\ \/ pc \in {"scopes", "symbols"} /\ ast = ast_null /\ work = << >>
       \/ pc = "sem" /\ ast \in SemSources /\ work = << ast >>

SymtabCall(table) ==
    /\ symtab' = table
    /\ found' = no_lookup
    /\ UNCHANGED <<funcs, instr_count, pc, optvars, genvars, emitted, runvars,
                   had_error, work, sem_result>>

EnterScope ==
    /\ pc \in {"scopes", "symbols"}
    /\ symtab.scope_depth < MaxDepth
    /\ SymtabCall(symtab_enter_scope(symtab))

EnterFunctionScope ==
    /\ pc = "scopes"
    /\ symtab.scope_depth < MaxDepth
    /\ \E return_type \in ReturnTypes :
          SymtabCall(symtab_enter_function_scope(symtab, return_type))

EnterLoopScope ==
    /\ pc = "scopes"
    /\ symtab.scope_depth < MaxDepth
    /\ SymtabCall(symtab_enter_loop_scope(symtab))

EnterSecureScope ==
    /\ pc = "scopes"
    /\ symtab.scope_depth < MaxDepth
    /\ SymtabCall(symtab_enter_secure_scope(symtab))

ExitScope ==
    /\ pc \in {"scopes", "symbols"}
    /\ SymtabCall(symtab_exit_scope(symtab))

DeclareVariable(name, is_const) ==
    /\ pc = "symbols"
    /\ SymbolCount(symtab) < MaxSymbols
    /\ SymtabCall(symtab_declare_variable(symtab, name, "TYPE_NUMBER", is_const).table)

DeclareFunction(name) ==
    /\ pc = "symbols"
    /\ SymbolCount(symtab) < MaxSymbols
    /\ SymtabCall(symtab_declare_function(symtab, name, << >>, "TYPE_NUMBER").table)

DeclareParameter(name) ==
    /\ pc = "symbols"
    /\ SymbolCount(symtab) < MaxSymbols
    /\ SymtabCall(symtab_declare_parameter(symtab, name, "TYPE_NUMBER").table)

Lookup(name) ==
    /\ pc = "symbols"
    /\ found' = [name |-> name, sym |-> symtab_lookup(symtab, name)]
    /\ UNCHANGED <<funcs, instr_count, pc, optvars, genvars, emitted, runvars,
                   symtab, had_error, work, sem_result>>

\* semantic_analyze: one analyze_node call
AnalyzeNode ==
    /\ pc = "sem"
    /\ work # << >>
    /\ \E r \in {analyze_node(symtab, Head(work))} :
          /\ symtab' = r.table
          /\ work' = r.next \o Tail(work)
          /\ had_error' = (had_error \/ r.table.error_count > symtab.error_count)
    /\ UNCHANGED <<funcs, instr_count, pc, optvars, genvars, emitted, runvars, sem_result,
                   found>>

\* semantic_analyze: "Fill in result"
SemanticAnalyze ==
    /\ pc = "sem"
    /\ work = << >>
    /\ pc' = "analyzed"
    /\ sem_result' = semantic_result(symtab, had_error)
    /\ UNCHANGED <<funcs, instr_count, optvars, genvars, emitted, runvars,
                   symtab, had_error, work, found>>

\* The AST as the analyzer leaves it: node->data_type of an identifier or a
\* call is the type of the symbol it names (the declarations of the programs
\* lowered here are still in the table when the analysis ends)
RECURSIVE annotated(_, _)
annotated(node, table) ==
    [node EXCEPT
        !.kids = [k \in DOMAIN node.kids |-> annotated(node.kids[k], table)],
        !.data_type = IF node.type \in {"AST_IDENTIFIER", "AST_FUNC_CALL"}
                          /\ symtab_lookup(table, node.name) # no_symbol
                      THEN symtab_lookup(table, node.name).type ELSE @]

\* the nodes whose lowering is part of this model
RECURSIVE Lowerable(_)
Lowerable(node) ==
    /\ node.type \in {"NULL", "AST_PROGRAM", "AST_BLOCK", "AST_VAR_DECL", "AST_ASSIGN",
                       "AST_DISPLAY", "AST_IF", "AST_WHILE", "AST_REPEAT", "AST_FOR_EACH",
                       "AST_FUNC_DECL", "AST_RETURN", "AST_BREAK", "AST_CONTINUE",
                       "AST_EXPR_STMT", "AST_LITERAL_INT", "AST_LITERAL_FLOAT",
                       "AST_LITERAL_STRING", "AST_LITERAL_BOOL", "AST_IDENTIFIER",
                       "AST_BINARY_OP", "AST_TERNARY_OP", "AST_FUNC_CALL", "AST_LIST",
                       "AST_INDEX"}
    /\ node.type = "AST_FUNC_DECL" => Len(node.kids) = 1
    /\ \A k \in DOMAIN node.kids : Lowerable(node.kids[k])

\* the driver after an analysis without errors: ir_generate on the analyzed AST
IrGenerateAnalyzed ==
    /\ pc = "analyzed"
    /\ sem_result.success
    /\ Lowerable(ast)
    /\ pc' = "generated"
    /\ \E r \in {ir_generate(annotated(ast, symtab))} :
          /\ funcs' = r.funcs
          /\ input' = r.funcs
          /\ instr_count' = [i \in DOMAIN r.funcs |-> Len(r.funcs[i])]
          /\ own' = r.own
    /\ UNCHANGED <<optvars, ast, emitted, runvars, semvars>>

SemNext ==
    \/ EnterScope
    \/ EnterFunctionScope
    \/ EnterLoopScope
    \/ EnterSecureScope
    \/ ExitScope
    \/ \E name \in SymNames, is_const \in BOOLEAN : DeclareVariable(name, is_const)
    \/ \E name \in SymNames : DeclareFunction(name)
    \/ \E name \in SymNames : DeclareParameter(name)
    \/ \E name \in SymNames : Lookup(name)
    \/ AnalyzeNode
    \/ SemanticAnalyze
    \/ IrGenerateAnalyzed

SemSpec == SemInit /\ [][SemNext]_vars


(***************************************************************************)
(* Properties of the optimizer                                             *)
(***************************************************************************)
PassPcs == {"prop", "fold", "alg", "str", "rle", "dce"}

Ids(f) == [i \in 1 .. Len(f) |-> f[i].id]

LiveCount(f) == Len(f) - CountDead(f)

is_const_operand(op) == op.kind \in {"int", "float", "bool"}

\* C1 (as claimed): optimize_function at level 2 leaves its loop, and starts the
\* sweep, only after an iteration in which no pass reported a transformation.
C1_FixpointBeforeCap ==
    (level = 2 /\ pc = "sweep") => changes = 0

\* C1 (amended): the loop of optimize_function runs at most 10 iterations; it is
\* left for the sweep either after the first iteration without a transformation
\* (fewer than 10 completed iterations with transformations) or after the tenth
\* iteration, whose transformations are then not followed by another iteration.
C1_LoopBounded ==
    /\ iter <= 10
    /\ pc \in PassPcs \cup {"iter_end"} => iter < 10
    /\ (level = 2 /\ pc = "sweep") =>
           \/ changes = 0 /\ iter < 10
           \/ changes > 0 /\ iter = 10

C1_Witness == level = 2 /\ pc = "sweep" /\ changes > 0 /\ iter = 10

\* C2 (as claimed): when ir_optimize at level 2 has returned, no live instruction
\* with a binary opcode has constants in both arg1 and arg2, except a Div or Mod
\* whose second operand is zero.
C2_NoConstBinary ==
    (level = 2 /\ pc = "done") =>
        \A k \in DOMAIN funcs : \A i \in 1 .. Len(funcs[k]) :
            LET instr == funcs[k][i] IN
            (~instr.dead /\ is_binary_op(instr.op)
               /\ is_const_operand(instr.a1) /\ is_const_operand(instr.a2))
              => (instr.op \in {"DIV", "MOD"} /\ is_zero(instr.a2))

\* two instructions of f lie in the same basic block: no Label, FuncBegin, Call,
\* Goto, IfGoto or IfFalseGoto at or between them
SameBlock(f, i, j) == \A k \in i .. j : ~rle_boundary(f[k].op)

\* C3 (as claimed): after level 2 and the sweep no two loads of one basic block
\* have the same opcode and the same constant.
C3_NoDuplicateLoads ==
    (level = 2 /\ pc = "done") =>
        \A k \in DOMAIN funcs : \A i \in 1 .. Len(funcs[k]) : \A j \in (i + 1) .. Len(funcs[k]) :
            LET f == funcs[k] IN
            (is_load(f[i].op) /\ f[j].op = f[i].op /\ SameBlock(f, i, j))
              => f[i].a1 # f[j].a1

\* C4: a pass keeps the nodes of the list, their order and instr_count, never
\* clears an is_dead flag, never lets the number of live instructions grow, and
\* leaves the other functions alone.
PassKeepsList ==
    pc \in PassPcs =>
         /\ Ids(funcs'[fidx]) = Ids(funcs[fidx])
         /\ instr_count' = instr_count
         /\ \A i \in 1 .. Len(funcs[fidx]) : funcs[fidx][i].dead => funcs'[fidx][i].dead
         /\ LiveCount(funcs'[fidx]) <= LiveCount(funcs[fidx])
         /\ \A k \in DOMAIN funcs : k # fidx => funcs'[k] = funcs[k]

C4_PassFrame == [][PassKeepsList]_vars

\* a pass has rewritten an instruction and DCE has marked instructions dead
C4_Witness ==
    /\ pc = "iter_end" /\ last_count > 0 /\ changes > last_count
    /\ \E i \in 1 .. Len(func) : func[i].dead
    /\ \E i \in 1 .. Len(func) : func[i] # input[fidx][i] /\ ~func[i].dead

\* C5 (as claimed): for all a and b, level 2 and the sweep turn
\* t0 = LoadInt a; t1 = LoadInt b; t2 = Add t0, t1; Display t2 into the single
\* instruction Display (a + b).
C5_DisplaySum ==
    \A a \in IntVals, b \in IntVals :
        (level = 2 /\ pc = "done"
           /\ input = << BinProg("ADD", tac_operand_int(a), tac_operand_int(b)) >>)
          => /\ instr_count[1] = 1
             /\ funcs[1] = << Display(4, tac_operand_int(a + b)) >>

\* C5 (amended): the same for nonzero a and b; when a or b is 0 the folded load
\* of a + b repeats the load of the other operand, redundant load elimination
\* turns it into a copy, and two instructions are left:
\* t2 = Assign (a + b); Display t2.
C5_DisplaySumNonzero ==
    \A a \in IntVals, b \in IntVals :
        (level = 2 /\ pc = "done"
           /\ input = << BinProg("ADD", tac_operand_int(a), tac_operand_int(b)) >>)
          => IF a # 0 /\ b # 0
             THEN /\ instr_count[1] = 1
                  /\ funcs[1] = << Display(4, tac_operand_int(a + b)) >>
             ELSE /\ instr_count[1] = 2
                  /\ funcs[1] = << tac_instr_create(3, "ASSIGN", tac_operand_temp(2),
                                                    tac_operand_int(a + b), tac_operand_none),
                                   Display(4, tac_operand_temp(2)) >>

C5_Witness ==
    /\ level = 2 /\ pc = "done"
    /\ input = << BinProg("ADD", tac_operand_int(3), tac_operand_int(4)) >>
    /\ funcs[1] = << Display(4, tac_operand_int(7)) >>

\* C6: the folding pass leaves every live Div or Mod whose constant second
\* operand is zero (integer 0 or 0.0) as it is, evaluates no division or
\* remainder by zero, and returns the number of instructions it rewrote.
FoldSkipsZeroDivisor ==
    (pc = "fold" /\ opts.constant_folding) =>
         /\ ~div_by_zero'
         /\ \A i \in 1 .. Len(func) :
              (~func[i].dead /\ func[i].op \in {"DIV", "MOD"}
                 /\ is_numeric_const(func[i].a1) /\ is_zero(func[i].a2))
                => funcs'[fidx][i] = func[i]
         /\ last_count' = Cardinality({i \in 1 .. Len(func) : funcs'[fidx][i] # func[i]})

C6_NoZeroDivideFold == [][FoldSkipsZeroDivisor]_vars

\* the folding pass has met a Div or Mod of two constants with a zero divisor
C6_Witness ==
    /\ pc = "alg" /\ opts.constant_folding
    /\ \E i \in 1 .. Len(func) :
         /\ ~func[i].dead /\ func[i].op \in {"DIV", "MOD"}
         /\ is_numeric_const(func[i].a1) /\ is_zero(func[i].a2)

(***************************************************************************)
(* Properties of the IR builder and of the code generator                  *)
(***************************************************************************)
\* C7 (as claimed): for every Call the IR builder emitted (here: with no more
\* arguments than params[] holds), the Params the code generator gathers for it
\* are the Params emitted for its own arguments, first argument first.
C7_OwnParams ==
    pc = "emitted" =>
        \A o \in own : \A e \in emitted :
            (e.func = o.func /\ e.call = o.call /\ Len(o.params) <= params_size)
              => e.args = o.params

\* C8 (as claimed): the C call written for a live Call of a program that came
\* from ir_generate, optimized or not, has as many arguments as the Call's arg2
\* says.
C8_ArgCount ==
    (pc = "emitted" /\ ast # ast_null) =>
        \A e \in emitted : Len(e.args) = e.nargs

is_jump(opcode) == opcode \in {"GOTO", "IF_GOTO", "IF_FALSE_GOTO"}

\* C9 (as claimed): in every function ir_generate returns, the target of every
\* Goto, IfGoto and IfFalseGoto is the label of a Label instruction of that
\* function.
C9_LabelsDefined ==
    (pc = "start" /\ ast # ast_null) =>
        \A k \in DOMAIN funcs : \A i \in DOMAIN funcs[k] :
            is_jump(funcs[k][i].op) =>
                \E j \in DOMAIN funcs[k] :
                    funcs[k][j].op = "LABEL" /\ funcs[k][j].res = funcs[k][i].res

\* the program is  n = v  repeat count times { display 1 ... }
IsRepeatProg(p) ==
    /\ p.type = "AST_PROGRAM" /\ Len(p.kids) = 2
    /\ p.kids[1].type = "AST_VAR_DECL" /\ p.kids[2].type = "AST_REPEAT"

\* the value of a count expression when n = v
CountValue(e, v) ==
    CASE e.type = "AST_LITERAL_INT" -> e.value
      [] e.type = "AST_IDENTIFIER" -> v
      [] e.type = "AST_BINARY_OP" -> v + e.kids[2].value

\* N: the value of the count of the Repeat on loop entry
CountOnEntry(p) == CountValue(p.kids[2].kids[1], p.kids[1].kids[1].value)

\* C10 (as claimed): when the TAC of  n = v  repeat count times { display 1 ... }
\* has run to its end, the body has run max(N, 0) times, N being the value of
\* count on loop entry.
C10_RepeatRuns ==
    (pc = "exec" /\ IsRepeatProg(ast) /\ ip = Len(funcs[1]) + 1) =>
        Len(output) = (IF CountOnEntry(ast) > 0 THEN CountOnEntry(ast) ELSE 0)

(***************************************************************************)
(* Properties of the symbol table and the semantic analyzer                *)
(***************************************************************************)
\* which function entered each scope of the chain, global scope first
EnteredAs(table) == [i \in DOMAIN table.scopes |-> table.scopes[i].entered]

\* walking from the current scope toward the global one, a scope entered as a
\* loop scope is met before any scope entered as a function scope
LoopBeforeFunction(table) ==
    \E i \in DOMAIN table.scopes :
        /\ table.scopes[i].entered = "loop"
        /\ \A j \in (i + 1) .. Len(table.scopes) : table.scopes[j].entered # "function"

\* the analyzer is about to analyze a Break or Continue
AtBreakOrContinue ==
    /\ pc = "sem" /\ work # << >>
    /\ Head(work).type \in {"AST_BREAK", "AST_CONTINUE"}

\* the step that analyzes a Break or Continue reports an error exactly when
\* no loop scope is met before a function scope
BreakReported ==
    AtBreakOrContinue =>
        symtab'.error_count = symtab.error_count + (IF LoopBeforeFunction(symtab) THEN 0 ELSE 1)

\* C11: after any sequence of scope entries and exits symtab_in_loop is true
\* exactly when, walking from the current scope toward the global scope, a
\* scope entered as a loop scope is met before any scope entered as a
\* function scope; and the analyzer reports a Break or Continue as an error
\* exactly when symtab_in_loop is false, so it does in a function body
\* declared inside a loop and does not inside If or SecureZone blocks of a loop
C11_InLoopIsNearestLoop ==
    /\ [](symtab_in_loop(symtab) <=> LoopBeforeFunction(symtab))
    /\ [][BreakReported]_vars

\* C11: the Break of  while .. { function h { stop } }  has been reported
C11_Witness ==
    /\ pc = "sem"
    /\ EnteredAs(symtab) = << "global", "loop", "function" >>
    /\ \E k \in DOMAIN ast.kids : ast.kids[k] = While(<< Func("TYPE_NOTHING", << ast_create_break >>) >>)
    /\ work = << exit_scope_step, exit_scope_step >>
    /\ symtab.error_count = 1

\* the statement writes to a constant: an assignment to the constant or to an
\* element of it, an Ask or Read into it
WritesConstant(table, node) ==
    \/ /\ node.type \in {"AST_ASSIGN", "AST_ASK", "AST_READ"}
       /\ node.name # 0
       /\ symtab_lookup(table, node.name).kind = "SYMBOL_CONSTANT"
    \/ /\ node.type = "AST_ASSIGN" /\ node.name = 0
       /\ node.kids[2].type = "AST_INDEX"
       /\ node.kids[2].kids[1].type = "AST_IDENTIFIER"
       /\ symtab_lookup(table, node.kids[2].kids[1].name).kind = "SYMBOL_CONSTANT"

ConstantWriteReported ==
    (pc = "sem" /\ work # << >> /\ WritesConstant(symtab, Head(work)))
        => symtab'.error_count > symtab.error_count

\* C12: every assignment whose target resolves to a constant symbol (the
\* target identifier itself, or the array of an index target) and every Ask
\* or Read whose target is a constant produces a semantic error
C12_ConstantWriteReported == [][ConstantWriteReported]_vars

ExpressionTypes ==
    {"AST_LITERAL_INT", "AST_LITERAL_FLOAT", "AST_LITERAL_STRING", "AST_LITERAL_BOOL",
     "AST_IDENTIFIER", "AST_BINARY_OP", "AST_UNARY_OP", "AST_TERNARY_OP", "AST_FUNC_CALL",
     "AST_INDEX", "AST_LIST"}

\* the violations analyze_expression counts in one expression
ExpressionErrors(table, e) == analyze_expression(table, e).table.error_count - table.error_count

\* the violations in the sub-expressions of a statement, kids i .. last
RECURSIVE SubExpressionErrors(_, _, _)
SubExpressionErrors(table, node, i) ==
    IF i > Len(node.kids) THEN 0
    ELSE (IF node.kids[i].type \in ExpressionTypes
          THEN ExpressionErrors(table, node.kids[i]) ELSE 0)
         + SubExpressionErrors(table, node, i + 1)

\* the assignment's target is itself a violation: undefined, a constant or a function
BadTarget(table, node) ==
    /\ node.type = "AST_ASSIGN" /\ node.name # 0
    /\ symtab_lookup(table, node.name).kind \in {"NULL", "SYMBOL_CONSTANT", "SYMBOL_FUNCTION"}

AllViolationsCounted ==
    (pc = "sem" /\ work # << >> /\ Head(work).type \notin {"AST_PROGRAM", "AST_BLOCK"})
        => symtab'.error_count - symtab.error_count
             >= SubExpressionErrors(symtab, Head(work), 1)
                + (IF BadTarget(symtab, Head(work)) THEN 1 ELSE 0)

\* C13: analysis continues after every error: for every statement all of its
\* sub-expressions are analyzed and their violations counted, also when
\* another part of the statement (the target of an assignment) has already
\* produced an error
C13_AllViolationsCounted == [][AllViolationsCounted]_vars

\* the statements after the prelude whose only violation is (a) a Text value
\* assigned to the Number variable a, (b) a Break outside any loop, (c) a
\* Return without value in a function declared to return Number
TextToNumber == Contexts(ast_create_assign(1, Text))
BreakOutsideLoop ==
    OutsideAll(ast_create_break)
        \cup InFunction("TYPE_NOTHING", ast_create_break)
        \cup InFunction("TYPE_NUMBER", ast_create_break)
BareReturn ==
    InFunction("TYPE_NUMBER", ast_create_return(ast_null))
        \cup InFunctionLoop("TYPE_NUMBER", ast_create_return(ast_null))

SingleViolation ==
    {ast_create_program(Prelude \o c) : c \in TextToNumber \cup BreakOutsideLoop \cup BareReturn}

\* C14: a program whose only violation is a Text value assigned to a declared
\* Number variable, a Break outside any loop, or a Return without value in a
\* function declared to return Number makes semantic_analyze report
\* error_count = 1 and success = false
C14_OneViolationOneError ==
    (pc = "analyzed" /\ ast \in SingleViolation)
        => (sem_result.error_count = 1 /\ sem_result.success = FALSE)

\* C14: semantic_analyze returned for  function h returns Number { give back }
C14_Witness ==
    /\ pc = "analyzed"
    /\ ast = ast_create_program(Prelude \o << Func("TYPE_NUMBER", << ast_create_return(ast_null) >>) >>)
    /\ sem_result.error_count = 1

\* the innermost scope of the chain that holds the name
Innermost(table, name) ==
    CHOOSE i \in ScopesWith(table, name) : \A j \in ScopesWith(table, name) : j <= i

\* C15: symtab_lookup(name) returns the symbol declared in the innermost scope
\* on the chain from the current scope up to the global scope that contains
\* name, NULL when no scope does; the returned symbol's scope_level is never
\* greater than the scope depth at lookup time
C15_LookupInnermost ==
    found # no_lookup =>
        IF ScopesWith(symtab, found.name) = {} THEN found.sym = no_symbol
        ELSE /\ \E k \in DOMAIN symtab.scopes[Innermost(symtab, found.name)].symbols :
                   found.sym = symtab.scopes[Innermost(symtab, found.name)].symbols[k]
             /\ found.sym.name = found.name
             /\ found.sym.scope_level = symtab.scopes[Innermost(symtab, found.name)].level
             /\ found.sym.scope_level <= symtab.scope_depth

\* C15: a lookup of a name that an inner scope declares again
C15_Witness ==
    /\ found # no_lookup
    /\ Cardinality(ScopesWith(symtab, found.name)) >= 2
    /\ found.sym.scope_level >= 1
    /\ found.sym.scope_level < symtab.scope_depth

\* no scope holds two symbols with the same name
NoDuplicateNames(table) ==
    \A i \in DOMAIN table.scopes :
        \A j, k \in DOMAIN table.scopes[i].symbols :
            table.scopes[i].symbols[j].name = table.scopes[i].symbols[k].name => j = k

\* the step is a declaration of this name by a client of the symbol table
Declares(name) ==
    \/ DeclareVariable(name, TRUE) \/ DeclareVariable(name, FALSE)
    \/ DeclareFunction(name) \/ DeclareParameter(name)

\* a declaration of a name the current scope holds leaves the table as it
\* is; any other, also of a name an enclosing scope holds, puts the symbol
\* at the head of the current scope and leaves the other scopes alone
DeclarationChecked ==
    \A name \in SymNames :
        Declares(name) =>
            IF symbol_find(current_scope(symtab).symbols, name) # 0
            THEN symtab' = symtab
            ELSE /\ Len(symtab'.scopes) = Len(symtab.scopes)
                 /\ Head(current_scope(symtab').symbols).name = name
                 /\ Head(current_scope(symtab').symbols).scope_level = symtab.scope_depth
                 /\ Tail(current_scope(symtab').symbols) = current_scope(symtab).symbols
                 /\ \A i \in 1 .. (Len(symtab.scopes) - 1) : symtab'.scopes[i] = symtab.scopes[i]

\* C16: after any sequence of variable, function and parameter declarations
\* and scope entries and exits no scope holds two symbols with the same
\* name: a declaration whose name already exists in the current scope is
\* rejected and leaves that scope unchanged, while the same name in an
\* enclosing scope is accepted
C16_NoDuplicateNames ==
    /\ [](NoDuplicateNames(symtab))
    /\ [][DeclarationChecked]_vars

\* C16: a scope that is full and an inner scope that shadows one of its names
C16_Witness ==
    /\ pc = "symbols"
    /\ found = no_lookup
    /\ \E i \in DOMAIN symtab.scopes :
          /\ Len(symtab.scopes[i].symbols) = Cardinality(SymNames)
          /\ i < Len(symtab.scopes)
          /\ current_scope(symtab).symbols # << >>

(***************************************************************************)
(* Properties of the optimized program                                     *)
(***************************************************************************)
\* ir_optimize has returned for a program ir_generate emitted from a source
\* of integer variables, integer arithmetic, comparisons, If, While, Repeat
\* and Display, and the unoptimized main function runs to its end or to a fault
OptimizedIntegerProgram(ub) ==
    /\ pc = "done" /\ level = 2 /\ ast # ast_null
    /\ \A i \in DOMAIN input[1] : input[1][i].op \in RunOps
    /\ run(input[1], ub).status \in {"exited", "SIGFPE"}

RunsToEnd(ub) == OptimizedIntegerProgram(ub) /\ run(input[1], ub).status = "exited"

WritersBefore(f, i, t) ==
    {j \in 1 .. (i - 1) : ~f[j].dead /\ f[j].res.kind = "temp" /\ f[j].res.v = t}

LastOf(S) == CHOOSE j \in S : \A k \in S : k <= j

\* instruction j is a load of c and no live Label, FuncBegin or Call lies
\* between it and position i
LoadReaches(f, j, i, c) ==
    /\ f[j].op \in {"LOAD_INT", "LOAD_FLOAT", "LOAD_BOOL"}
    /\ f[j].a1 = c
    /\ \A k \in (j + 1) .. (i - 1) : f[k].dead \/ f[k].op \notin {"LABEL", "FUNC_BEGIN", "CALL"}

\* the operand old of instruction i became new
RewrittenFromLoad(f, i, old, new) ==
    new # old =>
        /\ old.kind = "temp"
        /\ new.kind \in {"int", "float", "bool"}
        /\ WritersBefore(f, i, old.v) # {}
        /\ LoadReaches(f, LastOf(WritersBefore(f, i, old.v)), i, new)

PropagationStep == pc = "prop" /\ pc' = "fold" /\ opts.constant_propagation

ConstantsFromLoads ==
    PropagationStep =>
        \A i \in DOMAIN funcs[fidx] : \A a \in {"a1", "a2", "a3"} :
            RewrittenFromLoad(funcs[fidx], i, funcs[fidx][i][a], funcs'[fidx][i][a])

\* C18: whenever opt_constant_propagation replaces a Temp source operand with
\* a constant c, the most recent live instruction before it in list order
\* that writes that temp is a LoadInt/LoadFloat/LoadBool of c, and no live
\* Label, FuncBegin or Call lies between that load and the rewritten
\* instruction
C18_ConstantsFromLoads == [][ConstantsFromLoads]_vars

\* propagation has just replaced operands in a function that writes one temp
\* twice, first by a load and later, past a Label, by another instruction
C18_Witness ==
    /\ pc = "fold" /\ last_count > 0
    /\ \E i, k, j \in DOMAIN funcs[fidx] :
           /\ i < k /\ k < j
           /\ funcs[fidx][i].op = "LOAD_INT" /\ funcs[fidx][i].res.kind = "temp"
           /\ funcs[fidx][k].op = "LABEL"
           /\ funcs[fidx][j].op # "LOAD_INT" /\ funcs[fidx][j].res = funcs[fidx][i].res

\* temp t holds a known constant at instruction i: its most recent live
\* writer is a load that reaches i within the basic block
KnownAt(f, i, t) ==
    /\ WritersBefore(f, i, t) # {}
    /\ LoadReaches(f, LastOf(WritersBefore(f, i, t)), i, f[LastOf(WritersBefore(f, i, t))].a1)

ConstantOf(f, i, t) == f[LastOf(WritersBefore(f, i, t))].a1

\* the live non-Load instructions of f
NonLoads(f) ==
    {i \in DOMAIN f : ~f[i].dead /\ f[i].op \notin {"LOAD_INT", "LOAD_FLOAT", "LOAD_BOOL"}}

\* the source operands of f that are temps with a known constant
KnownOperands(f, args) ==
    {<<i, a>> \in NonLoads(f) \X args : f[i][a].kind = "temp" /\ KnownAt(f, i, f[i][a].v)}

OperandsPropagated(args) ==
    PropagationStep =>
        /\ \A p \in KnownOperands(funcs[fidx], args) :
               funcs'[fidx][p[1]][p[2]] = ConstantOf(funcs[fidx], p[1], funcs[fidx][p[1]][p[2]].v)
        /\ last_count' = Cardinality(KnownOperands(funcs[fidx], args))

\* C19: opt_constant_propagation replaces every source operand (arg1, arg2
\* and arg3) of a non-Load instruction that is a Temp with a known constant
\* in the current basic block, and counts one transformation per replaced
\* operand
C19_AllOperandsPropagated == [][OperandsPropagated({"a1", "a2", "a3"})]_vars

(***************************************************************************)
(* Properties of dead code elimination                                     *)
(***************************************************************************)
SideEffectSet ==
    {"DISPLAY", "READ", "ASK", "CALL", "PARAM", "RETURN", "GOTO", "IF_GOTO", "IF_FALSE_GOTO",
     "LABEL", "FUNC_BEGIN", "FUNC_END", "SCOPE_BEGIN", "SCOPE_END", "SECURE_BEGIN",
     "SECURE_END", "DECL", "BREAK", "CONTINUE", "LIST_APPEND", "LIST_SET"}

ReadsTemp(instr, t) ==
    \E a \in {"a1", "a2", "a3"} : instr[a].kind = "temp" /\ instr[a].v = t

\* the instructions the pass marked dead: live in f, dead in g
NewlyDead(f, g) == {i \in DOMAIN f : ~f[i].dead /\ g[i].dead}

\* instruction j was live when the pass reached instruction i: it was not
\* dead before the pass and the pass had not marked it on its way to i
LiveWhenReached(f, g, i, j) == ~f[j].dead /\ ~(j < i /\ g[j].dead)

DeadOnlyIfUnused(f, g) ==
    /\ \A i \in NewlyDead(f, g) :
           /\ f[i].op \notin SideEffectSet
           /\ f[i].res.kind = "temp"
           /\ \A j \in DOMAIN f \ {i} : LiveWhenReached(f, g, i, j) => ~ReadsTemp(f[j], f[i].res.v)
    /\ \A i \in DOMAIN f : f[i].res.kind = "var" => g[i].dead = f[i].dead

EliminationStep == pc = "dce" /\ pc' # "dce" /\ opts.dead_code_elimination

\* C20: opt_dead_code_elimination marks an instruction dead only if its
\* opcode is outside the side-effect set, its result is a Temp, and no other
\* live instruction anywhere in the function (before or after it, so
\* including a loop header reached by a back-edge) uses that temp as a source
\* operand; instructions whose result is a named Var are never marked dead
C20_DeadOnlyIfUnused ==
    [][EliminationStep => DeadOnlyIfUnused(funcs[fidx], funcs'[fidx])]_vars

\* the pass has marked an instruction dead and has kept one whose temp is
\* read only by an instruction earlier in the list (a loop header)
C20_Witness ==
    /\ pc = "iter_end" /\ last_count > 0
    /\ \E i \in DOMAIN funcs[fidx] : funcs[fidx][i].dead
    /\ \E i \in DOMAIN funcs[fidx] :
           /\ ~funcs[fidx][i].dead /\ funcs[fidx][i].res.kind = "temp"
           /\ funcs[fidx][i].op \notin SideEffectSet
           /\ \E j \in 1 .. (i - 1) : ~funcs[fidx][j].dead /\ ReadsTemp(funcs[fidx][j], funcs[fidx][i].res.v)
           /\ \A j \in (i + 1) .. Len(funcs[fidx]) : ~ReadsTemp(funcs[fidx][j], funcs[fidx][i].res.v)

(***************************************************************************)
(* Properties of the sweep                                                 *)
(***************************************************************************)
Reversed(q) == [k \in 1 .. Len(q) |-> q[Len(q) + 1 - k]]

Ascending(q) == \A k \in 1 .. (Len(q) - 1) : q[k] < q[k + 1]

\* first/last/prev/next of l form one doubly-linked list of exactly the
\* nodes of f that are not dead, in their old order, none of them freed
ListConsistent(f, l, fwd) ==
    /\ Ascending(fwd)
    /\ {fwd[k] : k \in 1 .. Len(fwd)} = {i \in DOMAIN f : ~f[i].dead}
    /\ nodes_backward(l) = Reversed(fwd)
    /\ l.freed = {i \in DOMAIN f : f[i].dead}
    /\ l.instr_count = Len(fwd)
    /\ (l.first = 0) = (l.last = 0)
    /\ l.first # 0 => l.prev[l.first] = 0 /\ l.next[l.last] = 0

SweepRemovesDead ==
    pc = "sweep" =>
        /\ ListConsistent(funcs[fidx], sweep_walk(funcs[fidx]).list,
                          nodes_forward(sweep_walk(funcs[fidx]).list))
        /\ funcs'[fidx] = SelectSeq(funcs[fidx], IsLive)
        /\ instr_count'[fidx] = Len(funcs'[fidx])
        /\ last_count' = Len(funcs[fidx]) - Len(funcs'[fidx])
        /\ \A k \in DOMAIN funcs : k # fidx => funcs'[k] = funcs[k] /\ instr_count'[k] = instr_count[k]

\* C21: opt_sweep_dead removes exactly the instructions whose is_dead flag is
\* true and nothing else: the surviving instructions keep their relative
\* order, first/last/prev/next form a consistent doubly-linked list,
\* instr_count equals the number of instructions left in the list, and the
\* return value equals the number removed
C21_SweepRemovesDead == [][SweepRemovesDead]_vars

\* the sweep has just removed the first node, the last node and an inner
\* node of a list and has left others
C21_Witness ==
    /\ pc \in {"prop", "done"} /\ last_count >= 3 /\ level = 2
    /\ \E k \in DOMAIN funcs :
          /\ Len(funcs[k]) >= 2 /\ Len(input[k]) = Len(funcs[k]) + last_count
          /\ funcs[k][1].id > 1
          /\ funcs[k][Len(funcs[k])].id < Len(input[k])
          /\ \E i \in 1 .. (Len(funcs[k]) - 1) : funcs[k][i + 1].id > funcs[k][i].id + 1

(***************************************************************************)
(* Properties of the driver                                                *)
(***************************************************************************)
PassOrder == << "prop", "fold", "alg", "str", "rle", "dce" >>

PassPosition(p) == CHOOSE k \in DOMAIN PassOrder : PassOrder[k] = p

\* what the pass at position k of the order makes of f, when it is enabled
PassResult(k, f) ==
    CASE k = 1 -> IF opts.constant_propagation THEN opt_constant_propagation(f).func ELSE f
      [] k = 2 -> IF opts.constant_folding THEN opt_constant_folding(f).func ELSE f
      [] k = 3 -> IF opts.algebraic_simplification THEN opt_algebraic_simplification(f).func ELSE f
      [] k = 4 -> IF opts.strength_reduction THEN opt_strength_reduction(f).func ELSE f
      [] k = 5 -> IF opts.redundant_load_elimination
                  THEN opt_redundant_load_elimination(f).func ELSE f
      [] k = 6 -> IF opts.dead_code_elimination THEN opt_dead_code_elimination(f).func ELSE f

\* the step after the pass at position k: the next pass, on the same function
PassesInOrder(k) ==
    /\ pc' = IF k < Len(PassOrder) THEN PassOrder[k + 1] ELSE "iter_end"
    /\ funcs'[fidx] = PassResult(k, funcs[fidx])
    /\ fidx' = fidx /\ iter' = iter

DriverOrder ==
    /\ pc \in {PassOrder[k] : k \in DOMAIN PassOrder} => PassesInOrder(PassPosition(pc))
    \* an iteration begins with constant propagation, the sweep comes after the last one
    /\ (pc' = "prop" /\ pc # "prop") => pc \in {"start", "iter_end", "sweep"}
    /\ pc = "iter_end" => /\ pc' \in {"prop", "sweep"} /\ fidx' = fidx
                          /\ pc' = "prop" => iter' = iter + 1
                          /\ pc' = "sweep" => changes = 0 \/ iter + 1 >= max_iterations
    /\ (pc' = "sweep" /\ pc # "sweep") => pc = "iter_end"
    \* one sweep for each function, then the next function, main first
    /\ pc = "start" => fidx = 1 /\ fidx' = 1
    /\ pc = "sweep" => /\ \A i \in DOMAIN funcs'[fidx] : ~funcs'[fidx][i].dead
                       /\ IF fidx < Len(funcs)
                          THEN fidx' = fidx + 1 /\ pc' = "prop" /\ iter' = 0
                          ELSE fidx' = fidx /\ pc' = "done"
    /\ pc # "sweep" => fidx' = fidx
    /\ (pc' = "done" /\ pc # "done") => (pc = "start" /\ level = 0) \/ (pc = "sweep" /\ fidx = Len(funcs))

\* C22: in every iteration of the optimizer loop the enabled passes run in the
\* fixed order constant propagation, constant folding, algebraic
\* simplification, strength reduction, redundant load elimination, dead code
\* elimination; the sweep runs exactly once per function and only after the
\* last iteration; and ir_optimize processes the main function before any
\* user function
C22_DriverOrder == [][DriverOrder]_vars

\* ir_optimize has returned after several iterations on the main function and
\* then on a user function
C22_Witness ==
    /\ pc = "done" /\ level = 2 /\ Len(funcs) >= 2 /\ fidx = Len(funcs)
    /\ passes_run >= 4
    /\ Len(funcs[1]) < Len(input[1]) /\ Len(funcs[2]) < Len(input[2])

(***************************************************************************)
(* Properties of the lowering of loops                                     *)
(***************************************************************************)
\* the Gotos that close a loop: a jump back to a Label, the loop's end Label
\* right behind it
LoopsOf(f) ==
    {q \in 1 .. (Len(f) - 1) :
        /\ f[q].op = "GOTO" /\ f[q + 1].op = "LABEL"
        /\ label_index(f, f[q].res.v) \in 1 .. (q - 1)}

StartOf(f, q) == label_index(f, f[q].res.v)

EndLabel(f, q) == f[q + 1].res.v

\* loop_start for While; for Repeat and ForEach the Label in front of the
\* increment of the counter
ContinueLabel(f, q) ==
    IF f[q - 1].op = "ADD" /\ f[q - 2].op = "LABEL" THEN f[q - 2].res.v ELSE f[q].res.v

\* the loop around position p that begins last
InnermostLoop(f, p) ==
    CHOOSE q \in LoopsOf(f) :
        /\ StartOf(f, q) < p /\ p < q
        /\ \A r \in LoopsOf(f) : (StartOf(f, r) < p /\ p < r) => StartOf(f, r) <= StartOf(f, q)

\* the positions behind  display m
MarkedAt(f, m) ==
    {p \in 3 .. Len(f) : /\ f[p - 1].op = "DISPLAY" /\ f[p - 2].op = "LOAD_INT"
                         /\ f[p - 2].a1.v = m /\ f[p - 1].a1 = f[p - 2].res}

JumpsLowered(f) ==
    /\ \A p \in MarkedAt(f, MarkOf("AST_BREAK")) :
          /\ f[p].op = "GOTO"
          /\ \E q \in LoopsOf(f) : StartOf(f, q) < p /\ p < q
          /\ f[p].res.v = EndLabel(f, InnermostLoop(f, p))
    /\ \A p \in MarkedAt(f, MarkOf("AST_CONTINUE")) :
          /\ f[p].op = "GOTO"
          /\ \E q \in LoopsOf(f) : StartOf(f, q) < p /\ p < q
          /\ f[p].res.v = ContinueLabel(f, InnermostLoop(f, p))

\* C23: in nested loops, every Break lowers to a Goto to the end label and
\* every Continue to a Goto to the continue label (start for While, inc for
\* Repeat/ForEach) of the innermost loop that encloses it; after an inner
\* loop has been lowered, Break/Continue in the rest of the outer loop's body
\* target the outer loop's labels again
C23_JumpsToInnermost ==
    (pc = "start" /\ ast \in NestedLoops) => JumpsLowered(funcs[1])

\* a Repeat inside a While was lowered, a Continue in the inner loop and a
\* Break behind it in the outer loop
C23_Witness ==
    /\ pc = "start"
    /\ ast = NestedProg("AST_WHILE", "AST_REPEAT", << >>, ast_create_continue, ast_create_break)
    /\ Cardinality(LoopsOf(funcs[1])) = 2
    /\ Cardinality(MarkedAt(funcs[1], 7)) = 1 /\ Cardinality(MarkedAt(funcs[1], 8)) = 1

(***************************************************************************)
(* Properties of the data types of the TAC                                 *)
(***************************************************************************)
\* the program  display l op r  was accepted and lowered
BinaryLowered == pc = "generated" /\ ast \in TypedSources

\* the expression displayed by the last statement
Displayed(program) == program.kids[Len(program.kids)].kids[1]

\* the instruction that computes the value of the last Display of f
ValueInstr(f) == f[Len(f) - 1]

SameResultType(ops) ==
    (BinaryLowered /\ Displayed(ast).op \in ops) =>
        /\ ValueInstr(funcs[1]).res = funcs[1][Len(funcs[1])].a1
        /\ ValueInstr(funcs[1]).data_type = analyze_expression(symtab, Displayed(ast)).t

\* C24: for every binary operator and every pair of operand types the
\* analyzer accepts, the data type the IR builder gives the result temp
\* equals the type the analyzer computes for that expression (Decimal if
\* either operand is Decimal, else Number; Mod always Number; comparisons and
\* logical operators Flag)
C24_SameResultType == SameResultType(BinaryOperators)

(***************************************************************************)
(* Properties of the module-level constant table                           *)
(***************************************************************************)
\* the table holds a constant, recorded by an earlier invocation, of a temp
\* that a live instruction of f reads
StaleConstantRead(f, tab) ==
    \E e \in 1 .. Len(tab) : \E i \in 1 .. Len(f) :
        /\ tab[e].valid
        /\ ~f[i].dead
        /\ \E a \in {f[i].a1, f[i].a2} : is_temp(a) /\ a.v = tab[e].temp_id

\* the entries a call of the pass finds: none that it could look up
ClearedOnEntry(tab) ==
    \A t \in 0 .. MaxStale : const_table_get(const_table_clear(tab), t) = tac_operand_none

OwnInstructionsOnly ==
    (pc = "prop" /\ opts.constant_propagation) =>
        /\ ClearedOnEntry(const_table)
        /\ funcs'[fidx] = opt_constant_propagation(funcs[fidx]).func
        /\ last_count' = opt_constant_propagation(funcs[fidx]).count
        /\ const_table' = opt_constant_propagation(funcs[fidx]).table

\* C25: the result of constant propagation on a function depends only on that
\* function's own instructions: whatever constants the module-level table
\* holds when the pass is called (recorded for another function, in an
\* earlier iteration or in an earlier invocation), the function, the count
\* and the table it leaves are those of a call that finds the table empty
C25_OwnInstructionsOnly == [][OwnInstructionsOnly]_vars

\* the pass is called again, after an earlier iteration or another function,
\* on a function that reads a temp of which the table holds a constant
C25_Witness ==
    /\ pc = "prop"
    /\ opts.constant_propagation
    /\ iter > 0 \/ fidx > 1
    /\ StaleConstantRead(func, const_table)

(***************************************************************************)
(* Properties of redundant load elimination                                *)
(***************************************************************************)
\* the last live instruction before i at which the pass resets recent, 0 when
\* there is none
BlockStart(f, i) ==
    LET S == {k \in 1 .. (i - 1) : ~f[k].dead /\ rle_boundary(f[k].op)}
    IN  IF S = {} THEN 0 ELSE CHOOSE k \in S : \A j \in S : j <= k

\* the pass has rewritten the load at i of f into the Assign at i of g
RewrittenLoad(f, g, i) ==
    /\ ~f[i].dead /\ is_load(f[i].op) /\ is_temp(f[i].res)
    /\ g[i].op = "ASSIGN" /\ is_temp(g[i].a1)

\* the loads of the block of i that the pass recorded for the temp and the
\* constant of the rewritten load at i: they are still loads in g
RecordedLoads(f, g, i) ==
    {j \in (BlockStart(f, i) + 1) .. (i - 1) :
        /\ ~g[j].dead /\ g[j].op = f[i].op /\ g[j].a1 = f[i].a1
        /\ is_temp(g[j].res) /\ g[j].res.v = g[i].a1.v}

\* no live instruction after the recorded load and before i writes the temp
Unwritten(g, j, i) ==
    \A k \in (j + 1) .. (i - 1) :
        g[k].dead \/ ~(is_temp(g[k].res) /\ g[k].res.v = g[i].a1.v)

OldTempUnwritten(f, g) ==
    \A i \in 1 .. Len(f) :
        RewrittenLoad(f, g, i) =>
            /\ RecordedLoads(f, g, i) # {}
            /\ Unwritten(g, FirstOf(RecordedLoads(f, g, i)), i)

RleStep == pc = "rle" /\ opts.redundant_load_elimination

OperandSlots(instr) == {instr.res, instr.a1, instr.a2, instr.a3}

\* temps that the instructions of f left in the list name in some slot
TempsReferenced(f) ==
    {op.v : op \in {op \in UNION {OperandSlots(f[i]) : i \in 1 .. Len(f)} : is_temp(op)}}

\* an instruction that writes temp t: t is its result and not the list operand
\* of a ListAppend or a ListSet
Writes(instr, t) ==
    is_temp(instr.res) /\ instr.res.v = t /\ instr.op \notin {"LIST_APPEND", "LIST_SET"}

WrittenIn(f, t) == \E i \in 1 .. Len(f) : Writes(f[i], t)

\* ir_optimize has returned: every function is swept
OptimizedAndSwept == pc = "done" /\ level > 0

ReferencedTempsWritten ==
    OptimizedAndSwept =>
        \A k \in DOMAIN funcs : \A t \in TempsReferenced(funcs[k]) :
            WrittenIn(input[k], t) => WrittenIn(funcs[k], t)

OverflowingPow(instr) ==
    /\ ~instr.dead /\ instr.op = "POW"
    /\ is_int_const(instr.a1) /\ is_int_const(instr.a2) /\ instr.a2.v >= 0
    /\ pow_loop([bits |-> ll_of_int(1), overflow |-> FALSE], instr.a1.v, instr.a2.v).overflow

FoldStep == pc = "fold" /\ opts.constant_folding

OverflowLeftUnfolded ==
    FoldStep => \A i \in 1 .. Len(funcs[fidx]) :
                    OverflowingPow(funcs[fidx][i]) => funcs'[fidx][i] = funcs[fidx][i]

\* C28: folding integer constants never performs a signed 64-bit operation
\* that overflows: whenever the exact result is not representable in 64 bits
\* (here that of the repeated multiplication for Pow) the instruction is left
\* unfolded
C28_OverflowLeftUnfolded == [][OverflowLeftUnfolded]_vars

(***************************************************************************)
(* Properties of the declarations in the TAC                               *)
(***************************************************************************)
\* the open ScopeBegin instructions, innermost last, after instruction k
scope_after(open, f, k) ==
    IF f[k].op = "SCOPE_BEGIN" THEN Append(open, k)
    ELSE IF f[k].op = "SCOPE_END" /\ open # << >> THEN SubSeq(open, 1, Len(open) - 1)
    ELSE open

RECURSIVE open_scopes(_, _)
\* the ScopeBegin instructions of f that are open after its first k instructions
open_scopes(f, k) == IF k = 0 THEN << >> ELSE scope_after(open_scopes(f, k - 1), f, k)

\* the innermost of the open scopes, 0 for the body of the function itself
innermost_scope(open) == IF open = << >> THEN 0 ELSE open[Len(open)]

\* the ScopeBegin/ScopeEnd region instruction i lies in
RegionOf(f, i) == innermost_scope(open_scopes(f, i - 1))

LiveDecl(f, i) == ~f[i].dead /\ f[i].op = "DECL"

OneDeclPerRegion(f) ==
    \A i \in 1 .. Len(f) : \A j \in (i + 1) .. Len(f) :
        (LiveDecl(f, i) /\ LiveDecl(f, j) /\ f[i].res = f[j].res)
            => RegionOf(f, i) # RegionOf(f, j)

\* C29: in TAC that ir_generate emits for a program the analyzer accepts, no
\* variable name is declared by two live Decl instructions lying in the same
\* ScopeBegin/ScopeEnd region of one function
C29_OneDeclPerRegion ==
    pc = "generated" => \A k \in DOMAIN funcs : OneDeclPerRegion(funcs[k])

(***************************************************************************)
(* Properties of the scope depth                                           *)
(***************************************************************************)
\* scope_depth is the level of the current scope and the number of its
\* ancestors, and the chain starts at the global scope
DepthIsLevel(table) ==
    /\ table.scope_depth = current_scope(table).level
    /\ table.scope_depth = Len(table.scopes) - 1
    /\ table.scope_depth >= 0
    /\ table.scopes[1].entered = "global" /\ table.scopes[1].level = 0

\* a call of the scope functions (not of the analyzer) at the global scope
\* that does not enter a scope, i.e. symtab_exit_scope, changes nothing
ExitAtGlobalRefused ==
    (pc \in {"scopes", "symbols"} /\ pc' = pc
        /\ Len(symtab.scopes) = 1 /\ Len(symtab'.scopes) <= 1
        /\ current_scope(symtab').symbols = current_scope(symtab).symbols)
    => symtab' = symtab

\* C30: after any sequence of symtab_enter_scope, symtab_enter_function_scope,
\* symtab_enter_loop_scope, symtab_enter_secure_scope and symtab_exit_scope
\* calls, scope_depth equals the level of the current scope and the number of
\* its ancestors, it is never negative, and symtab_exit_scope at the global
\* scope leaves the table unchanged: the global scope is never popped
C30_DepthIsLevel == [](DepthIsLevel(symtab)) /\ [][ExitAtGlobalRefused]_vars

\* scopes of three kinds have been entered, one inside the other, below the
\* global scope
C30_Witness ==
    /\ pc = "scopes"
    /\ EnteredAs(symtab) = << "global", "function", "loop", "secure" >>
    /\ symtab.scope_depth = 3

====
